---- MODULE Spec2Model ----
(***************************************************************************)
(* TheraTrack (src/app.py): a Streamlit forms-over-SQLite application.     *)
(*                                                                         *)
(* The state is the SQLite store (one variable per table, plus the         *)
(* sqlite_sequence counters that AUTOINCREMENT keeps) and, per browser     *)
(* session, Streamlit's st.session_state.  Every button handler of the     *)
(* script is one action.  A table is a set of rows; a row is a record of   *)
(* the columns that some handler or query reads.  The row order of an      *)
(* unordered SELECT is rowid order, i.e. ascending id.                     *)
(***************************************************************************)
EXTENDS Integers, Sequences, FiniteSets, TLC

VARIABLES
    users,              \* table users (username PRIMARY KEY, password)
    goals,              \* table goals (id, category, description)
    sites,              \* table sites (id, name, therapist_id)
    clients,            \* table clients (id, name, diagnosis, status, site_id, therapist_id)
    sessions,           \* table sessions
    soap_notes,         \* table soap_notes
    client_goals,       \* table client_goals, UNIQUE(client_id, goal_description)
    diagnostic_history, \* table diagnostic_history
    client_files,       \* table client_files
    therapist_checkin,  \* table therapist_checkin
    session_resources,  \* table session_resources
    session_plans,      \* table session_plans
    seq,                \* sqlite_sequence: table name -> last AUTOINCREMENT id
    clock,              \* the reading of datetime.now() at its last call
    logged_in,          \* st.session_state.logged_in, per browser session
    user,               \* st.session_state.user, per browser session
    signup_mode,        \* st.session_state.signup_mode, per browser session
    msg,                \* the message the last handler of the session emitted
    run,                \* a script run of the session caught between its read and its write
    df,                 \* Analytics: the filtered frame df of the last run of the page
    soap_df,            \* Analytics: the frame soap_df read for the PDF report
    csv,                \* Analytics: the text behind "Download CSV", or NoCsv
    df_goals,           \* Analytics: column goals_selected of the filtered frame df
    goal_counts         \* Analytics: the frame goal_counts, or NoFrame

authVars == <<logged_in, user, signup_mode>>
recordVars == <<sessions, soap_notes, client_goals, diagnostic_history, client_files,
                therapist_checkin, session_resources, session_plans>>
dbVars == <<users, goals, sites, clients, recordVars, seq, clock>>
aggVars == <<df, soap_df, csv, df_goals, goal_counts>>
vars == <<dbVars, authVars, msg, run, aggVars>>

(***************************************************************************)
(* Values.                                                                 *)
(***************************************************************************)
\* Python's None for st.session_state.user
None == "<None>"
\* no message emitted
NoMsg == "<none>"
\* no script run in flight
Idle == [handler |-> "idle", client_id |-> 0, new_goal |-> ""]
\* goal_counts before the goal-frequency block has run
NoFrame == <<[Goal |-> <<>>, count |-> 0]>>
\* no "Download CSV" button on the page
NoCsv == <<>>
\* SQL NULL for clients.site_id
NullSite == 0

\* browser sessions (each has its own st.session_state and its own connection)
Sess == {"s1", "s2"}

Tables == {"goals", "sites", "clients", "sessions", "soap_notes", "client_goals",
           "diagnostic_history", "client_files", "therapist_checkin",
           "session_resources", "session_plans"}

\* the eight tables whose rows carry a client_id
RecordTables == {"sessions", "soap_notes", "client_goals", "diagnostic_history",
                 "client_files", "therapist_checkin", "session_resources",
                 "session_plans"}

(***************************************************************************)
(* init_db: the seed rows.                                                 *)
(***************************************************************************)
CatEmotional == "Emotional & Psychological Well-being"
CatPhysical == "Physical Health & Function"
CatSocial == "Social & Interpersonal Functioning"
CatCognitive == "Cognitive Function & Insight"

default_goals ==
    << <<CatEmotional, "Enhance emotional expression and regulation">>,
       <<CatEmotional, "Increase self-awareness and self-esteem">>,
       <<CatEmotional, "Process and integrate psychological trauma">>,
       <<CatEmotional, "Reduce symptoms of anxiety, depression, and stress">>,
       <<CatEmotional, "Improve mood and overall quality of life">>,
       <<CatEmotional, "Develop positive coping mechanisms">>,
       <<CatPhysical, "Increase body awareness and mind-body connection">>,
       <<CatPhysical, "Improve coordination, balance, strength, and flexibility">>,
       <<CatPhysical, "Reduce muscle tension and chronic pain">>,
       <<CatPhysical, "Enhance motor skills and range of motion">>,
       <<CatSocial, "Develop effective verbal and nonverbal communication skills">>,
       <<CatSocial, "Build trust and empathy in relationships">>,
       <<CatSocial, "Enhance interpersonal relationships and social interaction">>,
       <<CatSocial, "Overcome social isolation and foster a sense of belonging">>,
       <<CatCognitive, "Improve executive function, attention, and memory">>,
       <<CatCognitive, "Gain insight into personal behaviors and patterns">>,
       <<CatCognitive, "Enhance problem-solving abilities">>,
       <<CatCognitive, "Stimulate neuroplasticity and brain function">> >>

\* "SELECT count(*) FROM goals" = 0  =>  executemany INSERT of default_goals.
\* Returns the goals table and its sequence counter after init_db.
SeedGoals(g, last) ==
    IF Cardinality(g) = 0
    THEN [rows |-> {[id |-> last + i, category |-> default_goals[i][1],
                     description |-> default_goals[i][2]] :
                        i \in 1..Len(default_goals)},
          last |-> last + Len(default_goals)]
    ELSE [rows |-> g, last |-> last]

\* "SELECT count(*) FROM users" = 0  =>  INSERT ('admin', 'admin').
SeedAdmin(u) ==
    IF Cardinality(u) = 0
    THEN {[username |-> "admin", password |-> "admin"]}
    ELSE u

(***************************************************************************)
(* The state after the first script run on an empty store: init_db has     *)
(* created and seeded the tables, session_state has its defaults.          *)
(***************************************************************************)
Init ==
    /\ users = SeedAdmin({})
    /\ goals = SeedGoals({}, 0).rows
    /\ sites = {}
    /\ clients = {}
    /\ sessions = {}
    /\ soap_notes = {}
    /\ client_goals = {}
    /\ diagnostic_history = {}
    /\ client_files = {}
    /\ therapist_checkin = {}
    /\ session_resources = {}
    /\ session_plans = {}
    /\ seq = [t \in Tables |-> IF t = "goals" THEN SeedGoals({}, 0).last ELSE 0]
    /\ clock = 0
    /\ logged_in = [s \in Sess |-> FALSE]
    /\ user = [s \in Sess |-> None]
    /\ signup_mode = [s \in Sess |-> FALSE]
    /\ msg = [s \in Sess |-> NoMsg]
    /\ run = [s \in Sess |-> Idle]
    /\ df = <<>>
    /\ soap_df = {}
    /\ csv = NoCsv
    /\ df_goals = <<>>
    /\ goal_counts = NoFrame

(***************************************************************************)
(* Authentication (login_page).                                            *)
(***************************************************************************)
\* what a therapist may type into the username and password boxes
UsernameInputs == {"", "admin", "alice", "Alice"}
PasswordInputs == {"", "admin", "pw1", "PW1"}

\* lower case of the texts the model types
Lower(x) == CASE x = "Alice" -> "alice" [] x = "PW1" -> "pw1" [] OTHER -> x

\* mutant of SelectUser: the comparison ignores case (COLLATE NOCASE)
SelectUser_NoCase(u, username, password) ==
    {r \in u : Lower(r.username) = Lower(username)
                 /\ Lower(r.password) = Lower(password)}

\* "SELECT * FROM users WHERE username=? AND password=?" then fetchone():
\* the set of matching rows (TEXT compares under the BINARY collation).
SelectUser(u, username, password) ==
    {r \in u : r.username = username /\ r.password = password}

\* mutant of UsersIntegrityError: username is no key, nothing is raised
UsersIntegrityError_NoKey(u, new_user) == FALSE

\* "INSERT INTO users VALUES (?, ?)": username is the PRIMARY KEY, so a row
\* with the same username raises sqlite3.IntegrityError.
UsersIntegrityError(u, new_user) ==
    \E r \in u : r.username = new_user

\* mutant of InsertUser: the new row takes the place of the table
InsertUser_Alone(u, new_user, new_pass) ==
    {[username |-> new_user, password |-> new_pass]}

InsertUser(u, new_user, new_pass) ==
    u \cup {[username |-> new_user, password |-> new_pass]}

\* the login screen is what the dispatch at the end of the script renders
OnLoginPage(s) == ~logged_in[s] /\ run[s] = Idle

\* "Login" button
Login(s, username, password) ==
    /\ OnLoginPage(s)
    /\ ~signup_mode[s]
    /\ IF SelectUser(users, username, password) # {}
       THEN /\ logged_in' = [logged_in EXCEPT ![s] = TRUE]
            /\ user' = [user EXCEPT ![s] = username]
            /\ signup_mode' = [signup_mode EXCEPT ![s] = FALSE]
            /\ msg' = [msg EXCEPT ![s] = NoMsg]
       ELSE /\ msg' = [msg EXCEPT ![s] = "Invalid Username or Password"]
            /\ UNCHANGED authVars
    /\ UNCHANGED <<dbVars, run, aggVars>>

\* "Go to Sign Up" button
GoToSignUp(s) ==
    /\ OnLoginPage(s)
    /\ ~signup_mode[s]
    /\ signup_mode' = [signup_mode EXCEPT ![s] = TRUE]
    /\ msg' = [msg EXCEPT ![s] = NoMsg]
    /\ UNCHANGED <<dbVars, logged_in, user, run, aggVars>>

\* "Create Account" button
CreateAccount(s, new_user, new_pass) ==
    /\ OnLoginPage(s)
    /\ signup_mode[s]
    /\ IF new_user = "" \/ new_pass = ""
       THEN /\ msg' = [msg EXCEPT ![s] = "Username and Password cannot be empty."]
            /\ UNCHANGED <<users, signup_mode>>
       ELSE IF UsersIntegrityError(users, new_user)
       THEN /\ msg' = [msg EXCEPT ![s] = "Username already taken."]
            /\ UNCHANGED <<users, signup_mode>>
       ELSE /\ users' = InsertUser(users, new_user, new_pass)
            /\ msg' = [msg EXCEPT ![s] = "Account created! Please log in."]
            /\ signup_mode' = [signup_mode EXCEPT ![s] = FALSE]
    /\ UNCHANGED <<goals, sites, clients, recordVars, seq, clock,
                   logged_in, user, run, aggVars>>

\* "Back to Login" button
BackToLogin(s) ==
    /\ OnLoginPage(s)
    /\ signup_mode[s]
    /\ signup_mode' = [signup_mode EXCEPT ![s] = FALSE]
    /\ msg' = [msg EXCEPT ![s] = NoMsg]
    /\ UNCHANGED <<dbVars, logged_in, user, run, aggVars>>

\* main_app is what the dispatch renders for a logged-in session
InMainApp(s) == logged_in[s] /\ run[s] = Idle

\* mutant of Logout: the button reruns the script and resets nothing
Logout_NoReset(s) ==
    /\ InMainApp(s)
    /\ msg' = [msg EXCEPT ![s] = NoMsg]
    /\ UNCHANGED <<dbVars, authVars, run, aggVars>>

\* sidebar "Logout" button: only logged_in is reset, user keeps its value
Logout(s) ==
    /\ InMainApp(s)
    /\ logged_in' = [logged_in EXCEPT ![s] = FALSE]
    /\ msg' = [msg EXCEPT ![s] = NoMsg]
    /\ UNCHANGED <<dbVars, user, signup_mode, run, aggVars>>

(***************************************************************************)
(* Helpers shared by the screens of main_app.                              *)
(***************************************************************************)
\* mutant of NextId: table clients without AUTOINCREMENT, the next rowid is
\* the largest rowid in the table plus one
NextId_MaxRowid(t) ==
    IF t = "clients"
    THEN IF clients = {} THEN 1
         ELSE (CHOOSE x \in {r.id : r \in clients} : \A r \in clients : r.id <= x) + 1
    ELSE seq[t] + 1

\* the id AUTOINCREMENT gives the next row of table t (ids are never reused)
NextId(t) == seq[t] + 1

\* the largest / smallest element of a non-empty set of integers
MaxOf(S) == CHOOSE x \in S : \A y \in S : y <= x
MinOf(S) == CHOOSE x \in S : \A y \in S : x <= y

\* "SELECT ... FROM sites WHERE therapist_id='{user}'"
SitesOf(u) == {r \in sites : r.therapist_id = u}

\* "SELECT ... FROM clients WHERE therapist_id='{user}'"
ClientsOf(u) == {r \in clients : r.therapist_id = u}

\* mutant of site_map: the sites of every therapist
site_map_AllTherapists(u, name) == MaxOf({r.id : r \in {x \in sites : x.name = name}})

\* site_map = dict(zip(sites_available['name'], sites_available['id'])):
\* with two sites of one name the later row (the larger id) wins the key.
site_map(u, name) == MaxOf({r.id : r \in {x \in SitesOf(u) : x.name = name}})

\* site_names = sites_available['name'].tolist(), as the set of its entries
site_names(u) == {r.name : r \in SitesOf(u)}

\* clients[clients['name'] == selected_client_name].iloc[0]: the first row, in
\* rowid order, of the therapist's clients that carry the selected name.
client_data(u, selected_client_name) ==
    LET rows == {r \in ClientsOf(u) : r.name = selected_client_name}
    IN  CHOOSE r \in rows : r.id = MinOf({x.id : x \in rows})

\* the names the "Select Client to View" box offers
ClientNamesOf(u) == {r.name : r \in ClientsOf(u)}

(***************************************************************************)
(* My Sites.                                                               *)
(***************************************************************************)
SiteNameInputs == {"", "Clinic A", "Clinic B"}

\* "Save Site" button
SaveSite(s, site_name) ==
    /\ InMainApp(s)
    /\ IF site_name # ""
       THEN /\ sites' = sites \cup {[id |-> NextId("sites"), name |-> site_name,
                                     therapist_id |-> user[s]]}
            /\ seq' = [seq EXCEPT !["sites"] = NextId("sites")]
            /\ msg' = [msg EXCEPT ![s] = "Site added."]
       ELSE /\ msg' = [msg EXCEPT ![s] = "Site Name cannot be empty."]
            /\ UNCHANGED <<sites, seq>>
    /\ UNCHANGED <<users, goals, clients, recordVars, clock, authVars, run, aggVars>>

\* mutant of site_clients_df: only the Active clients are counted
site_clients_df_ActiveOnly(u, site_id) ==
    {r \in clients : r.therapist_id = u /\ r.status = "Active" /\ r.site_id = site_id}

\* site_clients_df = clients_all_df[clients_all_df['site_id'] == site_id], where
\* clients_all_df holds the clients of the logged-in therapist
site_clients_df(u, site_id) == {r \in ClientsOf(u) : r.site_id = site_id}

\* mutant of DeleteSite: the DELETE runs without the count of assigned clients
DeleteSite_Unchecked(s, site_id) ==
    /\ InMainApp(s)
    /\ site_id \in {r.id : r \in SitesOf(user[s])}
    /\ sites' = {r \in sites : r.id # site_id}
    /\ msg' = [msg EXCEPT ![s] = "Site deleted."]
    /\ UNCHANGED <<users, goals, clients, recordVars, seq, clock, authVars, run, aggVars>>

\* "Delete Site: <name>" button of one of the therapist's sites
DeleteSite(s, site_id) ==
    /\ InMainApp(s)
    /\ site_id \in {r.id : r \in SitesOf(user[s])}
    /\ IF Cardinality(site_clients_df(user[s], site_id)) > 0
       THEN /\ msg' = [msg EXCEPT ![s] = "Cannot delete site: first unassign all clients."]
            /\ UNCHANGED sites
       ELSE /\ sites' = {r \in sites : r.id # site_id}
            /\ msg' = [msg EXCEPT ![s] = "Site deleted."]
    /\ UNCHANGED <<users, goals, clients, recordVars, seq, clock, authVars, run, aggVars>>

(***************************************************************************)
(* Client Records: add a client, the Client Profile tab.                   *)
(***************************************************************************)
ClientNameInputs == {"", "Bob", "Ann"}
DiagnosisInputs == {"Anxiety"}
\* mutant of StatusOptions: the boxes offer a fifth status
StatusOptions_Legacy == {"Active", "Terminated", "No-Show", "Inactive", "Discharged"}

\* the options of the two status boxes
StatusOptions == {"Active", "Terminated", "No-Show", "Inactive"}

\* "Create Client" button; selected_site_name is the entry of the site box,
\* which exists only when the therapist has a site (new_site_id = None otherwise)
CreateClient(s, new_name, new_diag, selected_site_name) ==
    /\ InMainApp(s)
    /\ \/ selected_site_name \in site_names(user[s])
       \/ site_names(user[s]) = {} /\ selected_site_name = ""
    /\ IF new_name # "" /\ site_names(user[s]) # {}
       THEN /\ clients' = clients \cup
                  {[id |-> NextId("clients"), name |-> new_name, diagnosis |-> new_diag,
                    status |-> "Active", site_id |-> site_map(user[s], selected_site_name),
                    therapist_id |-> user[s]]}
            /\ seq' = [seq EXCEPT !["clients"] = NextId("clients")]
            /\ msg' = [msg EXCEPT ![s] = "Client Added"]
       ELSE /\ msg' = [msg EXCEPT ![s] =
                         IF new_name = "" THEN "Client Name is required."
                         ELSE "Please define at least one site."]
            /\ UNCHANGED <<clients, seq>>
    /\ UNCHANGED <<users, goals, sites, recordVars, clock, authVars, run, aggVars>>

\* mutant of SetStatus: no WHERE clause
SetStatus_AllRows(rows, client_id, new_status) ==
    {[r EXCEPT !.status = new_status] : r \in rows}

\* "UPDATE clients SET status=? WHERE id=?"
SetStatus(rows, client_id, new_status) ==
    {IF r.id = client_id THEN [r EXCEPT !.status = new_status] ELSE r : r \in rows}

\* "Update Status" button of the profile of the selected client
UpdateStatus(s, selected_client_name, new_status) ==
    /\ InMainApp(s)
    /\ selected_client_name \in ClientNamesOf(user[s])
    /\ new_status \in StatusOptions
    /\ clients' = SetStatus(clients, client_data(user[s], selected_client_name).id,
                            new_status)
    /\ msg' = [msg EXCEPT ![s] = "Status updated"]
    /\ UNCHANGED <<users, goals, sites, recordVars, seq, clock, authVars, run, aggVars>>

\* "Update Site" button of the profile of the selected client
UpdateSite(s, selected_client_name, new_site_name) ==
    /\ InMainApp(s)
    /\ selected_client_name \in ClientNamesOf(user[s])
    /\ new_site_name \in site_names(user[s])
    /\ clients' = {IF r.id = client_data(user[s], selected_client_name).id
                   THEN [r EXCEPT !.site_id = site_map(user[s], new_site_name)]
                   ELSE r : r \in clients}
    /\ msg' = [msg EXCEPT ![s] = "Primary Site updated"]
    /\ UNCHANGED <<users, goals, sites, recordVars, seq, clock, authVars, run, aggVars>>

\* mutant of DeleteWhereClientId: the statement compares column id
DeleteWhereClientId_ById(rows, client_id) == {r \in rows : r.id # client_id}

\* "DELETE FROM <client-scoped table> WHERE client_id=?"
DeleteWhereClientId(rows, client_id) == {r \in rows : r.client_id # client_id}

\* "DELETE FROM clients WHERE id=?"
DeleteWhereId(rows, id) == {r \in rows : r.id # id}

\* "PERMANENTLY DELETE <name>" button: shown once the text typed into the
\* confirmation box equals the name of the selected client
DeleteClient(s, selected_client_name, delete_confirm) ==
    /\ InMainApp(s)
    /\ selected_client_name \in ClientNamesOf(user[s])
    /\ delete_confirm = client_data(user[s], selected_client_name).name
    /\ LET client_id == client_data(user[s], selected_client_name).id
       IN  /\ clients' = DeleteWhereId(clients, client_id)
           /\ sessions' = DeleteWhereClientId(sessions, client_id)
           /\ soap_notes' = DeleteWhereClientId(soap_notes, client_id)
           /\ client_goals' = DeleteWhereClientId(client_goals, client_id)
           /\ diagnostic_history' = DeleteWhereClientId(diagnostic_history, client_id)
           /\ client_files' = DeleteWhereClientId(client_files, client_id)
           /\ therapist_checkin' = DeleteWhereClientId(therapist_checkin, client_id)
           /\ session_resources' = DeleteWhereClientId(session_resources, client_id)
           /\ session_plans' = DeleteWhereClientId(session_plans, client_id)
    /\ msg' = [msg EXCEPT ![s] = "Client and all associated records deleted."]
    /\ UNCHANGED <<users, goals, sites, seq, clock, authVars, run, aggVars>>

(***************************************************************************)
(* The delete of a client, statement by statement.  get_connection opens   *)
(* the connection of a script run with the default isolation_level, under  *)
(* which sqlite3 begins a transaction before the first DELETE; the tables  *)
(* (what the connections of the other sessions read) change at commit.     *)
(***************************************************************************)
\* session s has a transaction open (and with it the write lock of the file)
TxOpen(s) == run[s].handler = "DeleteClient" /\ run[s].done >= 1

\* "PERMANENTLY DELETE <name>", the run up to the button: the SELECT of the
\* therapist's clients and client_data of the selected name
DeleteClientRead(s, selected_client_name, delete_confirm) ==
    /\ InMainApp(s)
    /\ selected_client_name \in ClientNamesOf(user[s])
    /\ delete_confirm = client_data(user[s], selected_client_name).name
    /\ run' = [run EXCEPT ![s] =
                 [handler |-> "DeleteClient",
                  client_id |-> client_data(user[s], selected_client_name).id,
                  done |-> 0]]
    /\ UNCHANGED <<dbVars, authVars, msg, aggVars>>

\* mutant of DeleteClientStmt: isolation_level=None, every DELETE is
\* committed as it is executed
DeleteClientStmt_Autocommit(s) ==
    /\ logged_in[s]
    /\ run[s].handler = "DeleteClient"
    /\ run[s].done < 9
    /\ run[s].done = 0 => \A o \in Sess \ {s} : ~TxOpen(o)
    /\ run' = [run EXCEPT ![s].done = @ + 1]
    /\ LET k == run[s].done + 1
           id == run[s].client_id
           del(n, rows) == IF k = n THEN DeleteWhereClientId(rows, id) ELSE rows
       IN  /\ clients' = IF k = 1 THEN DeleteWhereId(clients, id) ELSE clients
           /\ sessions' = del(2, sessions)
           /\ soap_notes' = del(3, soap_notes)
           /\ client_goals' = del(4, client_goals)
           /\ diagnostic_history' = del(5, diagnostic_history)
           /\ client_files' = del(6, client_files)
           /\ therapist_checkin' = del(7, therapist_checkin)
           /\ session_resources' = del(8, session_resources)
           /\ session_plans' = del(9, session_plans)
    /\ UNCHANGED <<users, goals, sites, seq, clock, authVars, msg, aggVars>>

\* one of the nine conn.execute("DELETE ...") of the handler: it changes the
\* transaction of the run's connection, not the tables; the first one waits
\* for the write lock
DeleteClientStmt(s) ==
    /\ logged_in[s]
    /\ run[s].handler = "DeleteClient"
    /\ run[s].done < 9
    /\ run[s].done = 0 => \A o \in Sess \ {s} : ~TxOpen(o)
    /\ run' = [run EXCEPT ![s].done = @ + 1]
    /\ UNCHANGED <<dbVars, authVars, msg, aggVars>>

\* conn.commit() after the ninth DELETE, st.success, st.rerun
DeleteClientCommit(s) ==
    /\ logged_in[s]
    /\ run[s].handler = "DeleteClient"
    /\ run[s].done = 9
    /\ LET client_id == run[s].client_id
       IN  /\ clients' = DeleteWhereId(clients, client_id)
           /\ sessions' = DeleteWhereClientId(sessions, client_id)
           /\ soap_notes' = DeleteWhereClientId(soap_notes, client_id)
           /\ client_goals' = DeleteWhereClientId(client_goals, client_id)
           /\ diagnostic_history' = DeleteWhereClientId(diagnostic_history, client_id)
           /\ client_files' = DeleteWhereClientId(client_files, client_id)
           /\ therapist_checkin' = DeleteWhereClientId(therapist_checkin, client_id)
           /\ session_resources' = DeleteWhereClientId(session_resources, client_id)
           /\ session_plans' = DeleteWhereClientId(session_plans, client_id)
    /\ msg' = [msg EXCEPT ![s] = "Client and all associated records deleted."]
    /\ run' = [run EXCEPT ![s] = Idle]
    /\ UNCHANGED <<users, goals, sites, seq, clock, authVars, aggVars>>

\* a statement of the handler raises (sqlite3.OperationalError: the lock was
\* not granted in time, the disk failed) or the run is stopped: the run ends
\* without commit and its connection is dropped, which rolls the
\* transaction back
DeleteClientFail(s) ==
    /\ logged_in[s]
    /\ run[s].handler = "DeleteClient"
    /\ msg' = [msg EXCEPT ![s] = "sqlite3.OperationalError"]
    /\ run' = [run EXCEPT ![s] = Idle]
    /\ UNCHANGED <<dbVars, authVars, aggVars>>

(***************************************************************************)
(* Text.  A string the program builds is the sequence of its pieces: a     *)
(* piece is a literal of the source, or a text the therapist typed or      *)
(* picked, kept whole.                                                     *)
(***************************************************************************)
\* sep.join(parts): parts is a sequence of texts
RECURSIVE Join(_, _)
Join(sep, parts) ==
    IF Len(parts) = 0 THEN <<>>
    ELSE IF Len(parts) = 1 THEN parts[1]
    ELSE parts[1] \o sep \o Join(sep, Tail(parts))

\* ", " as two characters
CommaSpace == <<",", " ">>

\* keyword in x (Python's substring test), for a keyword that is one piece
Contains(x, keyword) == \E i \in 1..Len(x) : x[i] = keyword

(***************************************************************************)
(* New Session.                                                            *)
(***************************************************************************)
\* mutant of ActiveClientsOf: the query has no status condition
ActiveClientsOf_AnyStatus(u) == {r \in clients : r.therapist_id = u}

\* "SELECT id, name, status FROM clients WHERE therapist_id=... AND status='Active'"
ActiveClientsOf(u) == {r \in ClientsOf(u) : r.status = "Active"}

\* client_map = dict(zip(clients['name'], clients['id'])): the later row wins
client_map(u, name) == MaxOf({r.id : r \in {x \in ActiveClientsOf(u) : x.name = name}})

\* "SELECT goal_description FROM client_goals WHERE client_id=..."
GoalsOfClient(client_id) ==
    {r.goal_description : r \in {x \in client_goals : x.client_id = client_id}}

\* the options of "Select Goals Addressed": the goals assigned to the client,
\* or every template when the client has none
available_goals(client_id) ==
    IF GoalsOfClient(client_id) = {} THEN {g.description : g \in goals}
    ELSE GoalsOfClient(client_id)

\* the descriptions a therapist of the model picks, types or deletes
GoalPicks == {default_goals[1][2], default_goals[4][2], "Custom goal"}

\* the selections of the "Select Goals Addressed" multiselect the model draws
GoalSelectionInputs ==
    {<<>>, <<default_goals[1][2]>>, <<default_goals[4][2]>>, <<"Custom goal">>,
     <<default_goals[1][2], default_goals[4][2]>>}

\* those of them the options on screen allow
GoalSelections(options) ==
    {sel \in GoalSelectionInputs : \A i \in 1..Len(sel) : sel[i] \in options}

RatingInputs == {1, 8, 10}

\* "Save Session" button (no st.rerun follows it)
SaveSession(s, selected_client_name, goals_selected, rating) ==
    /\ InMainApp(s)
    /\ selected_client_name \in {r.name : r \in ActiveClientsOf(user[s])}
    /\ rating \in 1..10
    /\ goals_selected
         \in GoalSelections(available_goals(client_map(user[s], selected_client_name)))
    /\ sessions' = sessions \cup
          {[id |-> NextId("sessions"),
            client_id |-> client_map(user[s], selected_client_name),
            goals_selected |-> Join(CommaSpace, [i \in 1..Len(goals_selected) |->
                                                    <<goals_selected[i]>>]),
            rating |-> rating, therapist_id |-> user[s]]}
    /\ seq' = [seq EXCEPT !["sessions"] = NextId("sessions")]
    /\ msg' = [msg EXCEPT ![s] = "Session Saved Successfully!"]
    /\ UNCHANGED <<users, goals, sites, clients, soap_notes, client_goals,
                   diagnostic_history, client_files, therapist_checkin,
                   session_resources, session_plans, clock, authVars, run, aggVars>>

(***************************************************************************)
(* Client Records, tab 2: SOAP notes.                                      *)
(***************************************************************************)
risk_keywords == <<"Suicidal Ideation", "Homicidal Ideation", "Self-Harm Risk",
                   "Grave Disability">>

\* selections of the "Risk Assessment" multiselect the model draws
RiskStatusInputs == {<<"No Current Risk">>, <<"Grave Disability">>,
                     <<"Suicidal Ideation", "Self-Harm Risk">>}
\* texts typed into "Clinical Impression/Analysis"
AnalysisInputs == {<<"Stable.">>, <<"Reports ", "Homicidal Ideation", " at night.">>}

\* final_assess = f"Risk: {', '.join(risk_status)} | Analysis: {s_assess}"
final_assess(risk_status, s_assess) ==
    <<"Risk: ">> \o Join(CommaSpace, [i \in 1..Len(risk_status) |-> <<risk_status[i]>>])
    \o <<" ", "|", " ", "Analysis: ">> \o s_assess

\* "Save SOAP Note" button; date is datetime.now()
SaveSoapNote(s, selected_client_name, risk_status, s_assess) ==
    /\ InMainApp(s)
    /\ selected_client_name \in ClientNamesOf(user[s])
    /\ soap_notes' = soap_notes \cup
          {[id |-> NextId("soap_notes"),
            client_id |-> client_data(user[s], selected_client_name).id,
            date |-> clock + 1,
            assessment |-> final_assess(risk_status, s_assess)]}
    /\ seq' = [seq EXCEPT !["soap_notes"] = NextId("soap_notes")]
    /\ clock' = clock + 1
    /\ msg' = [msg EXCEPT ![s] = "SOAP Note Saved Successfully!"]
    /\ UNCHANGED <<users, goals, sites, clients, sessions, client_goals,
                   diagnostic_history, client_files, therapist_checkin,
                   session_resources, session_plans, authVars, run, aggVars>>

(***************************************************************************)
(* Dashboard: the risk alert widget.                                       *)
(***************************************************************************)
\* "SELECT c.name, s.assessment, s.date, c.id FROM soap_notes s JOIN clients c
\*  ON s.client_id = c.id WHERE c.therapist_id='{user}' ORDER BY s.date DESC"
risk_df(u) ==
    {[name |-> c.name, assessment |-> n.assessment, date |-> n.date, id |-> c.id] :
        <<n, c>> \in {p \in soap_notes \X ClientsOf(u) : p[1].client_id = p[2].id}}

\* mutant of latest_notes: keep='last', the oldest row of a name stays
latest_notes_KeepLast(u) ==
    {r \in risk_df(u) : \A q \in risk_df(u) : q.name = r.name => q.date >= r.date}

\* risk_df.drop_duplicates(subset=['name'], keep='first'): of the rows that
\* share a name, the first in the date-descending order stays
latest_notes(u) ==
    {r \in risk_df(u) : \A q \in risk_df(u) : q.name = r.name => q.date <= r.date}

\* any(risk in x for risk in risk_keywords) if x else False
IsHighRisk(x) ==
    Len(x) > 0 /\ \E k \in 1..Len(risk_keywords) : Contains(x, risk_keywords[k])

\* the rows that get an alert card
high_risk_clients(u) == {r \in latest_notes(u) : IsHighRisk(r.assessment)}

\* "Apply Update" button of the alert card of row
ApplyUpdate(s, row, new_status) ==
    /\ InMainApp(s)
    /\ row \in high_risk_clients(user[s])
    /\ new_status \in StatusOptions
    /\ clients' = SetStatus(clients, row.id, new_status)
    /\ msg' = [msg EXCEPT ![s] = "Status updated"]
    /\ UNCHANGED <<users, goals, sites, recordVars, seq, clock, authVars, run, aggVars>>

(***************************************************************************)
(* The status updates, statement by statement.  A script run reads table   *)
(* clients at its start and executes the UPDATE when it reaches the button  *)
(* pressed; every session runs on its own connection, so the committed      *)
(* statement of another session may fall between the two.                   *)
(***************************************************************************)
\* "Update Status", first half of the run: the SELECT of the therapist's
\* clients, client_data of the selected name and the value of the status box
UpdateStatusRead(s, selected_client_name, new_status) ==
    /\ InMainApp(s)
    /\ selected_client_name \in ClientNamesOf(user[s])
    /\ new_status \in StatusOptions
    /\ run' = [run EXCEPT ![s] =
                 [handler |-> "UpdateStatus",
                  client_id |-> client_data(user[s], selected_client_name).id,
                  status |-> client_data(user[s], selected_client_name).status,
                  new_status |-> new_status]]
    /\ UNCHANGED <<dbVars, authVars, msg, aggVars>>

\* mutant of UpdateStatusWrite: the UPDATE carries the status the run read
\* (WHERE id=? AND status=?) and the run reports the rows it changed
UpdateStatusWrite_Checked(s) ==
    /\ logged_in[s]
    /\ run[s].handler = "UpdateStatus"
    /\ IF \E r \in clients : r.id = run[s].client_id /\ r.status = run[s].status
       THEN /\ clients' = SetStatus(clients, run[s].client_id, run[s].new_status)
            /\ msg' = [msg EXCEPT ![s] = "Status updated"]
       ELSE /\ clients' = clients
            /\ msg' = [msg EXCEPT ![s] = "Conflict"]
    /\ run' = [run EXCEPT ![s] = Idle]
    /\ UNCHANGED <<users, goals, sites, recordVars, seq, clock, authVars, aggVars>>

\* "Update Status", second half: "UPDATE clients SET status=? WHERE id=?",
\* commit, st.success, st.rerun.  The row count of the UPDATE is not read.
UpdateStatusWrite(s) ==
    /\ logged_in[s]
    /\ run[s].handler = "UpdateStatus"
    /\ clients' = SetStatus(clients, run[s].client_id, run[s].new_status)
    /\ msg' = [msg EXCEPT ![s] = "Status updated"]
    /\ run' = [run EXCEPT ![s] = Idle]
    /\ UNCHANGED <<users, goals, sites, recordVars, seq, clock, authVars, aggVars>>

\* "Apply Update", first half of the run: the risk query, clients_df_status
\* and the value of the status box of the card of row
ApplyUpdateRead(s, row, new_status) ==
    /\ InMainApp(s)
    /\ row \in high_risk_clients(user[s])
    /\ new_status \in StatusOptions
    /\ run' = [run EXCEPT ![s] =
                 [handler |-> "ApplyUpdate",
                  client_id |-> row.id,
                  status |-> (CHOOSE r \in clients : r.id = row.id).status,
                  new_status |-> new_status]]
    /\ UNCHANGED <<dbVars, authVars, msg, aggVars>>

\* "Apply Update", second half: the UPDATE, commit, st.success, st.rerun
ApplyUpdateWrite(s) ==
    /\ logged_in[s]
    /\ run[s].handler = "ApplyUpdate"
    /\ clients' = SetStatus(clients, run[s].client_id, run[s].new_status)
    /\ msg' = [msg EXCEPT ![s] = "Status updated"]
    /\ run' = [run EXCEPT ![s] = Idle]
    /\ UNCHANGED <<users, goals, sites, recordVars, seq, clock, authVars, aggVars>>

(***************************************************************************)
(* Client Records, tabs 3 to 8.                                            *)
(***************************************************************************)
\* "Save Session Plan" button
SaveSessionPlan(s, selected_client_name) ==
    /\ InMainApp(s)
    /\ selected_client_name \in ClientNamesOf(user[s])
    /\ session_plans' = session_plans \cup
          {[id |-> NextId("session_plans"),
            client_id |-> client_data(user[s], selected_client_name).id,
            therapist_id |-> user[s]]}
    /\ seq' = [seq EXCEPT !["session_plans"] = NextId("session_plans")]
    /\ msg' = [msg EXCEPT ![s] = "Session Plan Saved!"]
    /\ UNCHANGED <<users, goals, sites, clients, sessions, soap_notes, client_goals,
                   diagnostic_history, client_files, therapist_checkin,
                   session_resources, clock, authVars, run, aggVars>>

DiagCodeInputs == {"", "F33.2"}
DiagDescInputs == {"", "Major depressive disorder"}

\* "Log New Diagnosis" button; date is datetime.now()
LogDiagnosis(s, selected_client_name, diag_code, diag_desc) ==
    /\ InMainApp(s)
    /\ selected_client_name \in ClientNamesOf(user[s])
    /\ IF diag_code # "" /\ diag_desc # ""
       THEN /\ diagnostic_history' = diagnostic_history \cup
                  {[id |-> NextId("diagnostic_history"),
                    client_id |-> client_data(user[s], selected_client_name).id,
                    date |-> clock + 1,
                    diagnosis_code |-> diag_code,
                    diagnosis_description |-> diag_desc]}
            /\ seq' = [seq EXCEPT !["diagnostic_history"] = NextId("diagnostic_history")]
            /\ clock' = clock + 1
            /\ msg' = [msg EXCEPT ![s] = "Diagnosis logged."]
       ELSE /\ msg' = [msg EXCEPT ![s] = "Code and Description are required."]
            /\ UNCHANGED <<diagnostic_history, seq, clock>>
    /\ UNCHANGED <<users, goals, sites, clients, sessions, soap_notes, client_goals,
                   client_files, therapist_checkin, session_resources, session_plans,
                   authVars, run, aggVars>>

\* available_goals of the Client Goals tab: the templates whose description is
\* not yet assigned to the client
UnassignedGoals(client_id) ==
    {g.description : g \in goals} \ GoalsOfClient(client_id)

\* "Assign Goal to Client", first half of the script run: the reads of goals and
\* client_goals and the value of the "Select Goal to Assign" box.  The INSERT is
\* a later statement of the run, and the script run of another session, on its
\* own connection, may commit between the two.
AssignGoalRead(s, selected_client_name, new_goal) ==
    /\ InMainApp(s)
    /\ selected_client_name \in ClientNamesOf(user[s])
    /\ new_goal \in UnassignedGoals(client_data(user[s], selected_client_name).id)
                       \cap GoalPicks
    /\ run' = [run EXCEPT ![s] =
                 [handler |-> "AssignGoal",
                  client_id |-> client_data(user[s], selected_client_name).id,
                  new_goal |-> new_goal]]
    /\ UNCHANGED <<dbVars, authVars, msg, aggVars>>

\* mutant of ClientGoalsIntegrityError: the table has no UNIQUE constraint
ClientGoalsIntegrityError_NoUnique(rows, client_id, goal_description) == FALSE

\* UNIQUE(client_id, goal_description) of table client_goals: the INSERT of a
\* pair the table holds raises sqlite3.IntegrityError
ClientGoalsIntegrityError(rows, client_id, goal_description) ==
    \E r \in rows : r.client_id = client_id /\ r.goal_description = goal_description

\* "Assign Goal to Client", second half: "INSERT INTO client_goals (client_id,
\* goal_description) VALUES (?, ?)".  The handler does not catch the
\* IntegrityError: the run ends with the exception on screen and no commit.
AssignGoalInsert(s) ==
    /\ logged_in[s]
    /\ run[s].handler = "AssignGoal"
    /\ IF ClientGoalsIntegrityError(client_goals, run[s].client_id, run[s].new_goal)
       THEN /\ msg' = [msg EXCEPT ![s] = "sqlite3.IntegrityError"]
            /\ UNCHANGED <<client_goals, seq>>
       ELSE /\ client_goals' = client_goals \cup
                  {[id |-> NextId("client_goals"), client_id |-> run[s].client_id,
                    goal_description |-> run[s].new_goal]}
            /\ seq' = [seq EXCEPT !["client_goals"] = NextId("client_goals")]
            /\ msg' = [msg EXCEPT ![s] = "Goal assigned."]
    /\ run' = [run EXCEPT ![s] = Idle]
    /\ UNCHANGED <<users, goals, sites, clients, sessions, soap_notes,
                   diagnostic_history, client_files, therapist_checkin,
                   session_resources, session_plans, clock, authVars, aggVars>>

\* "Remove" button beside an assigned goal
RemoveGoal(s, selected_client_name, goal_desc) ==
    /\ InMainApp(s)
    /\ selected_client_name \in ClientNamesOf(user[s])
    /\ goal_desc \in GoalsOfClient(client_data(user[s], selected_client_name).id)
    /\ client_goals' =
          {r \in client_goals :
              ~(r.client_id = client_data(user[s], selected_client_name).id
                /\ r.goal_description = goal_desc)}
    /\ msg' = [msg EXCEPT ![s] = "Goal removed."]
    /\ UNCHANGED <<users, goals, sites, clients, sessions, soap_notes,
                   diagnostic_history, client_files, therapist_checkin,
                   session_resources, session_plans, seq, clock, authVars, run, aggVars>>

\* the size ceiling of an upload, in bytes
MaxUploadSize == 2 * 1024 * 1024

\* mutant of ExceedsLimit: the ceiling is off by one byte
ExceedsLimit_OffByOne(size) == size > MaxUploadSize + 1

\* uploaded_file.size > 2 * 1024 * 1024
ExceedsLimit(size) == size > MaxUploadSize

\* sizes, in bytes, of the files the model uploads
FileSizeInputs == {1, MaxUploadSize - 1, MaxUploadSize, MaxUploadSize + 1}

\* get_base64_data: base64.b64encode of the bytes read.  A payload is
\* represented by its length; the encoded text by its length and its padding.
get_base64_data(size) ==
    [len |-> 4 * ((size + 2) \div 3), pad |-> (3 - (size % 3)) % 3]

\* base64.b64decode, on the same representation: the length of the payload
b64decode(filedata) == (filedata.len \div 4) * 3 - filedata.pad

\* a file in the uploader and, when it is within the limit, its "Save" button
SaveFile(s, selected_client_name, size) ==
    /\ InMainApp(s)
    /\ selected_client_name \in ClientNamesOf(user[s])
    /\ IF ExceedsLimit(size)
       THEN /\ msg' = [msg EXCEPT ![s] = "File size exceeds 2MB limit."]
            /\ UNCHANGED <<client_files, seq, clock>>
       ELSE /\ client_files' = client_files \cup
                  {[id |-> NextId("client_files"),
                    client_id |-> client_data(user[s], selected_client_name).id,
                    filedata |-> get_base64_data(size),
                    upload_date |-> clock + 1]}
            /\ seq' = [seq EXCEPT !["client_files"] = NextId("client_files")]
            /\ clock' = clock + 1
            /\ msg' = [msg EXCEPT ![s] = "File saved."]
    /\ UNCHANGED <<users, goals, sites, clients, sessions, soap_notes, client_goals,
                   diagnostic_history, therapist_checkin, session_resources,
                   session_plans, authVars, run, aggVars>>

\* "Delete" button beside a saved file of the selected client
DeleteFile(s, selected_client_name, file_id) ==
    /\ InMainApp(s)
    /\ selected_client_name \in ClientNamesOf(user[s])
    /\ \E r \in client_files :
          r.id = file_id /\ r.client_id = client_data(user[s], selected_client_name).id
    /\ client_files' = DeleteWhereId(client_files, file_id)
    /\ msg' = [msg EXCEPT ![s] = "File deleted."]
    /\ UNCHANGED <<users, goals, sites, clients, sessions, soap_notes, client_goals,
                   diagnostic_history, therapist_checkin, session_resources,
                   session_plans, seq, clock, authVars, run, aggVars>>

\* "Save Self Check-In" button; date is datetime.now()
SaveCheckIn(s, selected_client_name) ==
    /\ InMainApp(s)
    /\ selected_client_name \in ClientNamesOf(user[s])
    /\ therapist_checkin' = therapist_checkin \cup
          {[id |-> NextId("therapist_checkin"),
            client_id |-> client_data(user[s], selected_client_name).id,
            date |-> clock + 1, therapist_id |-> user[s]]}
    /\ seq' = [seq EXCEPT !["therapist_checkin"] = NextId("therapist_checkin")]
    /\ clock' = clock + 1
    /\ msg' = [msg EXCEPT ![s] = "Self Check-In saved."]
    /\ UNCHANGED <<users, goals, sites, clients, sessions, soap_notes, client_goals,
                   diagnostic_history, client_files, session_resources, session_plans,
                   authVars, run, aggVars>>

ResourceTitleInputs == {"", "Breathing exercise"}

\* "Add Resource" button
AddResource(s, selected_client_name, resource_title) ==
    /\ InMainApp(s)
    /\ selected_client_name \in ClientNamesOf(user[s])
    /\ IF resource_title # ""
       THEN /\ session_resources' = session_resources \cup
                  {[id |-> NextId("session_resources"),
                    client_id |-> client_data(user[s], selected_client_name).id,
                    title |-> resource_title, therapist_id |-> user[s]]}
            /\ seq' = [seq EXCEPT !["session_resources"] = NextId("session_resources")]
            /\ msg' = [msg EXCEPT ![s] = "Resource added."]
       ELSE /\ msg' = [msg EXCEPT ![s] = "Resource Title is required."]
            /\ UNCHANGED <<session_resources, seq>>
    /\ UNCHANGED <<users, goals, sites, clients, sessions, soap_notes, client_goals,
                   diagnostic_history, client_files, therapist_checkin, session_plans,
                   clock, authVars, run, aggVars>>

\* "Delete" button beside a resource of the selected client
DeleteResource(s, selected_client_name, resource_id) ==
    /\ InMainApp(s)
    /\ selected_client_name \in ClientNamesOf(user[s])
    /\ \E r \in session_resources :
          r.id = resource_id
          /\ r.client_id = client_data(user[s], selected_client_name).id
    /\ session_resources' = DeleteWhereId(session_resources, resource_id)
    /\ msg' = [msg EXCEPT ![s] = "Resource deleted."]
    /\ UNCHANGED <<users, goals, sites, clients, sessions, soap_notes, client_goals,
                   diagnostic_history, client_files, therapist_checkin, session_plans,
                   seq, clock, authVars, run, aggVars>>

(***************************************************************************)
(* Goal Management.                                                        *)
(***************************************************************************)
\* texts typed into "Goal Description" (the handler accepts any, blank too)
GoalDescInputs == {"", "Custom goal", default_goals[1][2]}

\* "Add Goal" button
AddGoal(s, new_cat, new_desc) ==
    /\ InMainApp(s)
    /\ goals' = goals \cup {[id |-> NextId("goals"), category |-> new_cat,
                             description |-> new_desc]}
    /\ seq' = [seq EXCEPT !["goals"] = NextId("goals")]
    /\ msg' = [msg EXCEPT ![s] = "Goal added to dropdown menu."]
    /\ UNCHANGED <<users, sites, clients, recordVars, clock, authVars, run, aggVars>>

\* "DELETE FROM goals WHERE description=?"
DeleteGoalTemplate(g, goal_to_delete) == {r \in g : r.description # goal_to_delete}

\* "Delete Selected Goal" button, and the init_db of the script run that
\* st.rerun() starts: an emptied goals table is seeded again
DeleteGoal(s, goal_to_delete) ==
    /\ InMainApp(s)
    /\ goal_to_delete \in {g.description : g \in goals}
    /\ LET seeded == SeedGoals(DeleteGoalTemplate(goals, goal_to_delete), seq["goals"])
       IN  /\ goals' = seeded.rows
           /\ seq' = [seq EXCEPT !["goals"] = seeded.last]
    /\ msg' = [msg EXCEPT ![s] = "Goal deleted."]
    /\ UNCHANGED <<users, sites, clients, recordVars, clock, authVars, run, aggVars>>

(***************************************************************************)
(* Analytics & Reports: goal frequency.  Here a text is the sequence of    *)
(* its characters.                                                         *)
(***************************************************************************)
\* the characters str.strip() removes, of those the model types
Whitespace == {" "}

\* the index of the first "," of text x, or 0
FirstComma(x) ==
    IF \E i \in 1..Len(x) : x[i] = ","
    THEN CHOOSE i \in 1..Len(x) : x[i] = "," /\ \A j \in 1..(i - 1) : x[j] # ","
    ELSE 0

\* goals_str.split(','): the sequence of the pieces between the commas
RECURSIVE split(_)
split(x) ==
    IF FirstComma(x) = 0 THEN <<x>>
    ELSE <<SubSeq(x, 1, FirstComma(x) - 1)>> \o split(SubSeq(x, FirstComma(x) + 1, Len(x)))

\* g.lstrip() and g.rstrip()
RECURSIVE lstrip(_)
lstrip(g) == IF Len(g) > 0 /\ g[1] \in Whitespace THEN lstrip(Tail(g)) ELSE g

RECURSIVE rstrip(_)
rstrip(g) ==
    IF Len(g) > 0 /\ g[Len(g)] \in Whitespace THEN rstrip(SubSeq(g, 1, Len(g) - 1)) ELSE g

\* mutant of strip: the blanks stay
strip_None(g) == g

\* g.strip()
strip(g) == rstrip(lstrip(g))

\* [g.strip() for g in goals_str.split(',') if g.strip()]
RECURSIVE StrippedNonEmpty(_)
StrippedNonEmpty(pieces) ==
    IF Len(pieces) = 0 THEN <<>>
    ELSE (IF Len(strip(pieces[1])) > 0 THEN <<strip(pieces[1])>> ELSE <<>>)
         \o StrippedNonEmpty(Tail(pieces))

\* the loop over df['goals_selected'] that extends all_goals_addressed
RECURSIVE all_goals_addressed(_)
all_goals_addressed(column) ==
    IF Len(column) = 0 THEN <<>>
    ELSE StrippedNonEmpty(split(column[1])) \o all_goals_addressed(Tail(column))

\* mutant of value_counts: sort=False, the rows come in any order
value_counts_Unsorted(values) ==
    LET rows == {[Goal |-> v,
                  count |-> Cardinality({i \in 1..Len(values) : values[i] = v})] :
                    v \in {values[i] : i \in 1..Len(values)}}
        n == Cardinality(rows)
    IN  {f \in [1..n -> rows] : \A i, j \in 1..n : i # j => f[i] # f[j]}

\* pd.Series(values).value_counts().reset_index(): one row per distinct value
\* with the number of its occurrences, the larger counts first.  pandas fixes
\* no order among equal counts, so every such order is a possible frame.
value_counts(values) ==
    LET rows == {[Goal |-> v,
                  count |-> Cardinality({i \in 1..Len(values) : values[i] = v})] :
                    v \in {values[i] : i \in 1..Len(values)}}
        n == Cardinality(rows)
    IN  {f \in [1..n -> rows] :
            /\ \A i, j \in 1..n : i # j => f[i] # f[j]
            /\ \A i, j \in 1..n : i < j => f[i].count >= f[j].count}

\* a text kept whole (a goal description, a client name) as the sequence of
\* its commas, the blanks after them, its quotes and the stretches between
Spell(piece) ==
    CASE piece = "Smith, Ann" -> <<"Smith", ",", " ", "Ann">>
      [] piece = "Bob \"Bobby\"" -> <<"Bob ", "\"", "Bobby", "\"">>
      [] piece = default_goals[4][2] ->
            <<"Reduce symptoms of anxiety", ",", " ", "depression", ",", " ", "and stress">>
      [] piece = default_goals[8][2] ->
            <<"Improve coordination", ",", " ", "balance", ",", " ", "strength", ",", " ",
              "and flexibility">>
      [] piece = default_goals[15][2] ->
            <<"Improve executive function", ",", " ", "attention", ",", " ", "and memory">>
      [] OTHER -> <<piece>>

\* a stored text spelled out
RECURSIVE SpellText(_)
SpellText(x) == IF Len(x) = 0 THEN <<>> ELSE Spell(x[1]) \o SpellText(Tail(x))

\* the rows of a query in rowid order
RECURSIVE InRowidOrder(_)
InRowidOrder(rows) ==
    IF rows = {} THEN <<>>
    ELSE LET first == CHOOSE r \in rows : \A q \in rows : r.id <= q.id
         IN  <<first>> \o InRowidOrder(rows \ {first})

\* mutant of SessionsQuery: no WHERE clause
SessionsQuery_AllTherapists(u) ==
    LET joined == InRowidOrder(
                     {[id |-> p[1].id, name |-> p[2].name, rating |-> p[1].rating,
                       goals_selected |-> p[1].goals_selected] :
                         p \in {q \in sessions \X clients : q[1].client_id = q[2].id}})
    IN  [i \in 1..Len(joined) |->
            [name |-> joined[i].name, rating |-> joined[i].rating,
             goals_selected |-> joined[i].goals_selected]]

\* "SELECT c.name, ..., s.rating, s.goals_selected ... FROM sessions s JOIN
\* clients c ON s.client_id = c.id WHERE s.therapist_id=..."
SessionsQuery(u) ==
    LET joined == InRowidOrder(
                     {[id |-> p[1].id, name |-> p[2].name, rating |-> p[1].rating,
                       goals_selected |-> p[1].goals_selected] :
                         p \in {q \in sessions \X clients :
                                  q[1].client_id = q[2].id /\ q[1].therapist_id = u}})
    IN  [i \in 1..Len(joined) |->
            [name |-> joined[i].name, rating |-> joined[i].rating,
             goals_selected |-> joined[i].goals_selected]]

\* keyword occurs in the piece, whatever the case of the letters; of the
\* seeded descriptions only "Enhance emotional expression and regulation"
\* has the one keyword of the model
Mentions(piece, keyword) == keyword = "Emotional" /\ piece = default_goals[1][2]

\* str.contains(goal_filter, case=False) on a stored text
ContainsNoCase(x, keyword) == \E i \in 1..Len(x) : Mentions(x[i], keyword)

\* the two Python filters on df
FilterFrame(frame, client_filter, goal_filter) ==
    LET by_client == IF client_filter # "All"
                     THEN SelectSeq(frame, LAMBDA r : r.name = client_filter)
                     ELSE frame
    IN  IF goal_filter # ""
        THEN SelectSeq(by_client, LAMBDA r : ContainsNoCase(r.goals_selected, goal_filter))
        ELSE by_client

\* "SELECT * FROM soap_notes WHERE client_id=(SELECT id FROM clients WHERE
\* name='...')": the sub-select yields its first row, over the clients of
\* every therapist
SoapOfName(u, client_filter) ==
    LET ids == {c.id : c \in {x \in clients : x.name = client_filter}}
    IN  IF ids = {} THEN {} ELSE {n \in soap_notes : n.client_id = MinOf(ids)}

\* goal keywords typed into "Search by Goal keyword"
GoalFilterInputs == {"", "Emotional"}

\* the columns of the sessions query, in its order
df_columns ==
    <<"name", "date", "session_number", "session_time", "rating", "goals_selected",
      "progress_notes">>

\* those of them that hold integers
IntColumns == {"session_number", "rating"}

\* str(n) for a natural number: its decimal digits
RECURSIVE str(_)
str(n) ==
    LET digit == <<"0", "1", "2", "3", "4", "5", "6", "7", "8", "9">>[(n % 10) + 1]
    IN  IF n < 10 THEN <<digit>> ELSE str(n \div 10) \o <<digit>>

\* the characters that make csv.writer quote a field under QUOTE_MINIMAL: the
\* delimiter, the quote character and the line terminator of to_csv
CsvSpecial == {",", "\"", "\n"}

\* mutant of DoubleQuotes: a quote inside a field is written once
DoubleQuotes_Once(x) == x

\* doublequote=True: every quote character of the field is written twice
RECURSIVE DoubleQuotes(_)
DoubleQuotes(x) ==
    IF Len(x) = 0 THEN <<>>
    ELSE (IF x[1] = "\"" THEN <<"\"", "\"">> ELSE <<x[1]>>) \o DoubleQuotes(Tail(x))

\* one field as csv.writer writes it
CsvField(x) ==
    IF \E i \in 1..Len(x) : x[i] \in CsvSpecial
    THEN <<"\"">> \o DoubleQuotes(x) \o <<"\"">>
    ELSE x

\* one line: the fields, commas between them, the line terminator
CsvLine(fields) ==
    Join(<<",">>, [k \in 1..Len(fields) |-> CsvField(fields[k])]) \o <<"\n">>

\* the columns a frame carries
ColumnsOf(frame) == SelectSeq(df_columns, LAMBDA c : c \in DOMAIN frame[1])

\* the value of a cell as text
CellText(row, c) ==
    IF c \in IntColumns THEN str(row[c])
    ELSE IF c = "name" THEN Spell(row[c])
    ELSE SpellText(row[c])

\* df.to_csv(index=False) of a frame with a row or more: the header line and
\* one line per row
RECURSIVE CsvLines(_, _)
CsvLines(frame, cols) ==
    IF Len(frame) = 0 THEN <<>>
    ELSE CsvLine([k \in 1..Len(cols) |-> CellText(frame[1], cols[k])])
         \o CsvLines(Tail(frame), cols)

to_csv(frame) ==
    CsvLine([k \in 1..Len(ColumnsOf(frame)) |-> <<ColumnsOf(frame)[k]>>])
    \o CsvLines(frame, ColumnsOf(frame))

\* One run of the "Analytics & Reports" page with the two filters set.
Analytics(s, client_filter, goal_filter) ==
    /\ InMainApp(s)
    /\ ClientsOf(user[s]) # {}
    /\ client_filter \in {"All"} \cup {c.name : c \in ClientsOf(user[s])}
    /\ df' = FilterFrame(SessionsQuery(user[s]), client_filter, goal_filter)
    /\ IF Len(df') > 0
       THEN /\ df_goals' = [i \in 1..Len(df') |-> SpellText(df'[i].goals_selected)]
            /\ goal_counts' \in value_counts(all_goals_addressed(df_goals'))
            /\ soap_df' = IF client_filter # "All"
                          THEN SoapOfName(user[s], client_filter) ELSE {}
            /\ csv' = to_csv(df')
            /\ msg' = [msg EXCEPT ![s] = NoMsg]
       ELSE /\ df_goals' = <<>>
            /\ goal_counts' = NoFrame
            /\ soap_df' = {}
            /\ csv' = NoCsv
            /\ msg' = [msg EXCEPT ![s] = "No data matches these filters."]
    /\ UNCHANGED <<dbVars, authVars, run>>

\* the goal-frequency block of a non-empty filtered frame: goal_counts is
\* built when some goal was logged; the empty frame stands for the notice
\* "No goals were logged for these sessions"
GoalFrequency ==
    /\ goal_counts = NoFrame
    /\ Len(df_goals) > 0
    /\ goal_counts' \in value_counts(all_goals_addressed(df_goals))
    /\ UNCHANGED <<dbVars, authVars, msg, run, df, soap_df, csv, df_goals>>

\* the selections of "Select Goals Addressed" behind the rows of the frame;
\* a goal description is any text "Add Goal" accepted
FrameSelections ==
    {<<>>, <<<<"A">>>>, <<<<"B">>>>, <<<<"A">>, <<"B">>>>, <<<<"B">>, <<"C">>>>,
     <<<<" ">>, <<"A">>>>, <<<<"A", ",", "C">>>>, <<<<"B", " ">>, <<>>>>}

\* goals_str = ", ".join(goals_selected), the text a session row stores
FrameTexts == {Join(CommaSpace, sel) : sel \in FrameSelections}

\* bound of SpecAgg: rows of the filtered frame
AggMaxRows == 3

\* the frames of at most AggMaxRows session rows
Frames == UNION {[1..n -> FrameTexts] : n \in 1..AggMaxRows}

\* The goal-frequency count as a function of the filtered frame.
InitAgg ==
    /\ users = SeedAdmin({})
    /\ goals = SeedGoals({}, 0).rows
    /\ sites = {} /\ clients = {} /\ sessions = {} /\ soap_notes = {}
    /\ client_goals = {} /\ diagnostic_history = {} /\ client_files = {}
    /\ therapist_checkin = {} /\ session_resources = {} /\ session_plans = {}
    /\ seq = [t \in Tables |-> IF t = "goals" THEN SeedGoals({}, 0).last ELSE 0]
    /\ clock = 0
    /\ logged_in = [s \in Sess |-> TRUE]
    /\ user = [s \in Sess |-> "admin"]
    /\ signup_mode = [s \in Sess |-> FALSE]
    /\ msg = [s \in Sess |-> NoMsg]
    /\ run = [s \in Sess |-> Idle]
    /\ df = <<>>
    /\ soap_df = {}
    /\ csv = NoCsv
    /\ df_goals \in Frames
    /\ goal_counts = NoFrame

NextAgg == GoalFrequency

SpecAgg == InitAgg /\ [][NextAgg]_vars

\* the "Download CSV" button of a page whose frame has a row or more
ExportCsv ==
    /\ csv = NoCsv
    /\ Len(df) > 0
    /\ csv' = to_csv(df)
    /\ UNCHANGED <<dbVars, authVars, msg, run, df, soap_df, df_goals, goal_counts>>

\* a row of the filtered frame, all seven columns
CsvRow(client_name, sess_num, rating, goals_str, progress_notes) ==
    [name |-> client_name, date |-> <<"2024-01-05">>, session_number |-> sess_num,
     session_time |-> <<"10:00">>, rating |-> rating, goals_selected |-> goals_str,
     progress_notes |-> progress_notes]

\* rows whose names, goals and notes hold commas, quotes and line breaks
CsvRowInputs ==
    {CsvRow("Bob", 1, 8, <<>>, <<>>),
     CsvRow("Ann", 2, 10, <<default_goals[4][2]>>, <<"ok">>),
     CsvRow("Bob \"Bobby\"", 12, 5,
            <<default_goals[1][2], ",", " ", default_goals[4][2]>>,
            <<"line one", "\n", "line two">>),
     CsvRow("Smith, Ann", 1, 1, <<>>, <<"\"">>),
     CsvRow("Bob", 3, 10, <<default_goals[1][2]>>,
            <<"said ", "\"", "no", ",", " thanks", "\"", "\n">>),
     CsvRow("Ann", 10, 9, <<>>, <<",">>),
     CsvRow("Bob", 1, 8, <<>>, <<"\n">>),
     CsvRow("Ann", 1, 8, <<>>, <<"\"", "\"">>)}

\* bound of SpecCsv: rows of the filtered frame
CsvMaxRows == 2

\* the frames of at most CsvMaxRows rows
CsvFrames == UNION {[1..n -> CsvRowInputs] : n \in 1..CsvMaxRows}

\* The CSV export as a function of the filtered frame.
InitCsv ==
    /\ users = SeedAdmin({})
    /\ goals = SeedGoals({}, 0).rows
    /\ sites = {} /\ clients = {} /\ sessions = {} /\ soap_notes = {}
    /\ client_goals = {} /\ diagnostic_history = {} /\ client_files = {}
    /\ therapist_checkin = {} /\ session_resources = {} /\ session_plans = {}
    /\ seq = [t \in Tables |-> IF t = "goals" THEN SeedGoals({}, 0).last ELSE 0]
    /\ clock = 0
    /\ logged_in = [s \in Sess |-> TRUE]
    /\ user = [s \in Sess |-> "admin"]
    /\ signup_mode = [s \in Sess |-> FALSE]
    /\ msg = [s \in Sess |-> NoMsg]
    /\ run = [s \in Sess |-> Idle]
    /\ df \in CsvFrames
    /\ soap_df = {}
    /\ csv = NoCsv
    /\ df_goals = <<>>
    /\ goal_counts = NoFrame

NextCsv == ExportCsv

SpecCsv == InitCsv /\ [][NextCsv]_vars

(***************************************************************************)
(* Specifications.  Each takes the handlers that write the tables its      *)
(* claims read, from the state init_db leaves.  The deployment is one      *)
(* therapist at a time on the store file, so one browser session acts,     *)
(* except where a claim is about two script runs meeting in the store.     *)
(* The handlers are unbounded; each specification caps the ids a table     *)
(* may allocate and the rows the client-scoped tables may hold.            *)
(***************************************************************************)
\* table t has allocated fewer than n ids
Fresh(t, n) == seq[t] < n

\* ids the eight client-scoped tables have allocated, all together
Allocated ==
    seq["sessions"] + seq["soap_notes"] + seq["client_goals"]
    + seq["diagnostic_history"] + seq["client_files"] + seq["therapist_checkin"]
    + seq["session_resources"] + seq["session_plans"]

\* the client-scoped tables have allocated fewer than n ids
Room(n) == Allocated < n

\* Authentication alone.
NextAuth ==
    \/ \E u \in UsernameInputs, p \in PasswordInputs : Login("s1", u, p)
    \/ GoToSignUp("s1")
    \/ \E u \in UsernameInputs, p \in PasswordInputs : CreateAccount("s1", u, p)
    \/ BackToLogin("s1")
    \/ Logout("s1")

SpecAuth == Init /\ [][NextAuth]_vars

\* the accounts of two therapists, signed up and logged in by turns
TherapistLogins == {<<"admin", "admin">>, <<"alice", "pw1">>}

\* the statuses a therapist sets where the status is not what a claim is about
StatusPicks == {"Active", "Terminated"}

\* bounds of SpecSites: site ids and client ids ever allocated
SitesMaxSites == 2
SitesMaxClients == 1

\* Sites and the clients assigned to them, two therapists by turns.
NextSites ==
    \/ \E c \in TherapistLogins : Login("s1", c[1], c[2])
    \/ GoToSignUp("s1")
    \/ \E c \in TherapistLogins : CreateAccount("s1", c[1], c[2])
    \/ Logout("s1")
    \/ \E n \in SiteNameInputs : Fresh("sites", SitesMaxSites) /\ SaveSite("s1", n)
    \/ \E i \in 1..SitesMaxSites : DeleteSite("s1", i)
    \/ \E n \in ClientNameInputs, d \in DiagnosisInputs, sn \in SiteNameInputs :
          Fresh("clients", SitesMaxClients) /\ CreateClient("s1", n, d, sn)
    \/ \E n \in ClientNameInputs, st \in StatusPicks : UpdateStatus("s1", n, st)
    \/ \E n \in ClientNameInputs, sn \in SiteNameInputs : UpdateSite("s1", n, sn)
    \/ \E n \in ClientNameInputs, t \in ClientNameInputs : DeleteClient("s1", n, t)

SpecSites == Init /\ [][NextSites]_vars

\* The first steps of a practice: the seeded account logs in and sets up its
\* one site.
Setup(s) ==
    \/ Login(s, "admin", "admin")
    \/ SitesOf(user[s]) = {} /\ SaveSite(s, "Clinic A")

\* bounds of SpecRecords: client ids ever allocated; rows ever inserted into
\* the client-scoped tables, all together
RecMaxClients == 2
RecMaxRows == 2

\* names of the clients of the practice
ClientNames == {"Bob", "Ann"}

\* Every client-scoped table, and the cascading delete of a client.
NextRecords ==
    \/ Setup("s1")
    \/ \E n \in ClientNames :
          Fresh("clients", RecMaxClients) /\ CreateClient("s1", n, "Anxiety", "Clinic A")
    \/ \E n \in ClientNames :
          Room(RecMaxRows) /\ SaveSession("s1", n, <<>>, 8)
    \/ \E n \in ClientNames :
          Room(RecMaxRows)
          /\ SaveSoapNote("s1", n, <<"No Current Risk">>, <<"Stable.">>)
    \/ \E n \in ClientNames :
          Room(RecMaxRows) /\ SaveSessionPlan("s1", n)
    \/ \E n \in ClientNames :
          Room(RecMaxRows)
          /\ LogDiagnosis("s1", n, "F33.2", "Major depressive disorder")
    \/ \E n \in ClientNames : AssignGoalRead("s1", n, default_goals[1][2])
    \/ Room(RecMaxRows) /\ AssignGoalInsert("s1")
    \/ \E n \in ClientNames : Room(RecMaxRows) /\ SaveFile("s1", n, 1)
    \/ \E n \in ClientNames :
          Room(RecMaxRows) /\ SaveCheckIn("s1", n)
    \/ \E n \in ClientNames :
          Room(RecMaxRows)
          /\ AddResource("s1", n, "Breathing exercise")
    \/ \E n \in ClientNames : DeleteClient("s1", n, n)

SpecRecords == Init /\ [][NextRecords]_vars

\* bounds of SpecRisk: client ids and SOAP note ids ever allocated
RiskMaxClients == 2
RiskMaxNotes == 2

\* SOAP notes, the statuses and the risk alert widget of the dashboard.
NextRisk ==
    \/ Setup("s1")
    \/ \E n \in ClientNames :
          Fresh("clients", RiskMaxClients) /\ CreateClient("s1", n, "Anxiety", "Clinic A")
    \/ \E n \in ClientNames, r \in RiskStatusInputs, a \in AnalysisInputs :
          Fresh("soap_notes", RiskMaxNotes) /\ SaveSoapNote("s1", n, r, a)
    \/ \E row \in high_risk_clients(user["s1"]), st \in StatusPicks :
          ApplyUpdate("s1", row, st)
    \/ \E n \in ClientNames : DeleteClient("s1", n, n)

SpecRisk == Init /\ [][NextRisk]_vars

\* bounds of SpecGoals: client ids, client_goals ids and hand-made goal
\* templates ever allocated
GoalsMaxClients == 1
GoalsMaxAssigned == 2
GoalsMaxNew == 1

\* the goal descriptions of SpecGoals: a seeded template and a hand-made one
GoalsInPlay == {default_goals[1][2], "Custom goal"}

\* Goal templates and their assignment to clients; the seeded account is
\* logged in from two browser sessions, whose script runs may interleave.
NextGoals ==
    \/ \E s \in Sess : Login(s, "admin", "admin")
    \/ SitesOf(user["s1"]) = {} /\ SaveSite("s1", "Clinic A")
    \/ \E n \in ClientNames :
          Fresh("clients", GoalsMaxClients) /\ CreateClient("s1", n, "Anxiety", "Clinic A")
    \/ \E s \in Sess, n \in ClientNames, g \in GoalsInPlay : AssignGoalRead(s, n, g)
    \/ \E s \in Sess : Fresh("client_goals", GoalsMaxAssigned) /\ AssignGoalInsert(s)
    \/ \E s \in Sess, n \in ClientNames, g \in GoalsInPlay : RemoveGoal(s, n, g)
    \/ \E d \in GoalsInPlay :
          Fresh("goals", Len(default_goals) + GoalsMaxNew)
          /\ AddGoal("s1", CatEmotional, d)
    \/ \E d \in GoalsInPlay : DeleteGoal("s1", d)

SpecGoals == Init /\ [][NextGoals]_vars

\* bounds of SpecFiles: client ids and client_files ids ever allocated
FilesMaxClients == 2
FilesMaxFiles == 2

\* The files of a client.
NextFiles ==
    \/ Setup("s1")
    \/ \E n \in ClientNames :
          Fresh("clients", FilesMaxClients) /\ CreateClient("s1", n, "Anxiety", "Clinic A")
    \/ \E n \in ClientNames, size \in FileSizeInputs :
          Fresh("client_files", FilesMaxFiles) /\ SaveFile("s1", n, size)
    \/ \E n \in ClientNames, i \in 1..FilesMaxFiles : DeleteFile("s1", n, i)
    \/ \E n \in ClientNames : DeleteClient("s1", n, n)

SpecFiles == Init /\ [][NextFiles]_vars

\* bound of SpecAnalytics: client ids and session ids ever allocated, all
\* together
AnaMaxRows == 4

\* clients and sessions have allocated fewer than n ids
AnaRoom(n) == seq["clients"] + seq["sessions"] < n

\* Two therapists, each in a browser session of their own: the seeded
\* account in s1, a signed-up one in s2, each with one site.
TwoTherapists ==
    \/ Login("s1", "admin", "admin")
    \/ GoToSignUp("s2")
    \/ CreateAccount("s2", "alice", "pw1")
    \/ Login("s2", "alice", "pw1")
    \/ \E s \in Sess : SitesOf(user[s]) = {} /\ SaveSite(s, "Clinic A")

\* the forms "Save Session" is pressed with in SpecAnalytics: the goals
\* addressed and the rating
AnaSessionInputs == {<<<<>>, 8>>, <<<<default_goals[1][2]>>, 10>>}

\* Sessions logged by two therapists and the Analytics page of the first; the
\* second has one client, named Bob as a client of the first may be, and logs
\* one session.
NextAnalytics ==
    \/ TwoTherapists
    \/ \E n \in ClientNames :
          AnaRoom(AnaMaxRows) /\ CreateClient("s1", n, "Anxiety", "Clinic A")
    \/ /\ AnaRoom(AnaMaxRows) /\ ClientsOf(user["s2"]) = {}
       /\ CreateClient("s2", "Bob", "Anxiety", "Clinic A")
    \/ \E n \in ClientNames, in \in AnaSessionInputs :
          AnaRoom(AnaMaxRows) /\ SaveSession("s1", n, in[1], in[2])
    \/ /\ AnaRoom(AnaMaxRows)
       /\ \A x \in sessions : x.therapist_id # user["s2"]
       /\ SaveSession("s2", "Bob", <<>>, 10)
    \/ \E f \in {"All"} \cup ClientNames, g \in GoalFilterInputs :
          Analytics("s1", f, g)

SpecAnalytics == Init /\ [][NextAnalytics]_vars

\* bound of SpecSeed: goal ids ever allocated before a press of a Goal
\* Management button
SeedMaxIds == 36

\* the entry "Select Goal to Delete" shows when the page opens: the first row
FirstGoal == (CHOOSE g \in goals : \A h \in goals : g.id <= h.id).description

\* Script runs (each runs init_db) with sign-up, and goal templates added
\* and deleted; the therapist deletes the template the box shows.
NextSeed ==
    \/ \E c \in TherapistLogins : Login("s1", c[1], c[2])
    \/ GoToSignUp("s1")
    \/ \E c \in TherapistLogins : CreateAccount("s1", c[1], c[2])
    \/ BackToLogin("s1")
    \/ Logout("s1")
    \/ Fresh("goals", SeedMaxIds) /\ AddGoal("s1", CatEmotional, "Custom goal")
    \/ Fresh("goals", SeedMaxIds) /\ goals # {} /\ DeleteGoal("s1", FirstGoal)

SpecSeed == Init /\ [][NextSeed]_vars

\* bound of SpecCreate: ids ever allocated by the create forms, all together
CreateMaxIds == 3

\* ids the create forms of SpecCreate have allocated
Created ==
    seq["sites"] + seq["clients"] + seq["diagnostic_history"]
    + seq["session_resources"] + (seq["goals"] - Len(default_goals))

\* The create forms, each submitted with its required fields filled or blank.
NextCreate ==
    \/ Login("s1", "admin", "admin")
    \/ GoToSignUp("s1")
    \/ \E u \in {"", "alice"}, p \in {"", "pw1"} : CreateAccount("s1", u, p)
    \/ \E n \in SiteNameInputs : Created < CreateMaxIds /\ SaveSite("s1", n)
    \/ \E n \in ClientNameInputs, sn \in SiteNameInputs :
          Created < CreateMaxIds /\ CreateClient("s1", n, "Anxiety", sn)
    \/ \E n \in ClientNames, code \in DiagCodeInputs, desc \in DiagDescInputs :
          Created < CreateMaxIds /\ LogDiagnosis("s1", n, code, desc)
    \/ \E n \in ClientNames, title \in ResourceTitleInputs :
          Created < CreateMaxIds /\ AddResource("s1", n, title)
    \/ \E desc \in {"", "Custom goal"} :
          Created < CreateMaxIds /\ AddGoal("s1", CatEmotional, desc)

SpecCreate == Init /\ [][NextCreate]_vars

\* bound of SpecIsolation: client, session and SOAP note ids ever allocated,
\* all together
IsoMaxRows == 4

\* clients, sessions and soap_notes have allocated fewer than n ids
IsoRoom(n) == seq["clients"] + seq["sessions"] + seq["soap_notes"] < n

\* what the first therapist does in SpecIsolation
FirstTherapist ==
    \/ \E n \in ClientNames :
          IsoRoom(IsoMaxRows) /\ CreateClient("s1", n, "Anxiety", "Clinic A")
    \/ \E n \in ClientNames : IsoRoom(IsoMaxRows) /\ SaveSession("s1", n, <<>>, 8)
    \/ \E n \in ClientNames : DeleteClient("s1", n, n)
    \/ \E f \in {"All"} \cup ClientNames : Analytics("s1", f, "")

\* Two therapists who both have a client named Bob; the second keeps SOAP
\* notes on hers, the first works on his records and opens Analytics.
NextIsolation ==
    \/ TwoTherapists
    \/ FirstTherapist
    \/ /\ IsoRoom(IsoMaxRows) /\ ClientsOf(user["s2"]) = {}
       /\ CreateClient("s2", "Bob", "Anxiety", "Clinic A")
    \/ /\ IsoRoom(IsoMaxRows)
       /\ SaveSoapNote("s2", "Bob", <<"Grave Disability">>, <<"Stable.">>)

SpecIsolation == Init /\ [][NextIsolation]_vars

\* bound of SpecApp: ids ever allocated, all tables together, the seeded
\* goal templates aside
AppMaxIds == 3

\* the tables have allocated fewer than n ids
AppRoom(n) ==
    seq["sites"] + seq["clients"] + Allocated + (seq["goals"] - Len(default_goals)) < n

\* Every handler of the application, one browser session, two therapists by
\* turns, one client name and one site name.
NextApp ==
    \/ \E c \in TherapistLogins : Login("s1", c[1], c[2])
    \/ GoToSignUp("s1")
    \/ \E c \in TherapistLogins : CreateAccount("s1", c[1], c[2])
    \/ BackToLogin("s1")
    \/ Logout("s1")
    \/ AppRoom(AppMaxIds) /\ SaveSite("s1", "Clinic A")
    \/ \E i \in 1..AppMaxIds : DeleteSite("s1", i)
    \/ AppRoom(AppMaxIds) /\ CreateClient("s1", "Bob", "Anxiety", "Clinic A")
    \/ \E st \in StatusPicks : UpdateStatus("s1", "Bob", st)
    \/ UpdateSite("s1", "Bob", "Clinic A")
    \/ DeleteClient("s1", "Bob", "Bob")
    \/ AppRoom(AppMaxIds) /\ SaveSession("s1", "Bob", <<>>, 8)
    \/ AppRoom(AppMaxIds) /\ SaveSoapNote("s1", "Bob", <<"Grave Disability">>, <<"Stable.">>)
    \/ \E row \in high_risk_clients(user["s1"]), st \in StatusPicks :
          ApplyUpdate("s1", row, st)
    \/ AppRoom(AppMaxIds) /\ SaveSessionPlan("s1", "Bob")
    \/ AppRoom(AppMaxIds) /\ LogDiagnosis("s1", "Bob", "F33.2", "Major depressive disorder")
    \/ AssignGoalRead("s1", "Bob", default_goals[1][2])
    \/ AppRoom(AppMaxIds) /\ AssignGoalInsert("s1")
    \/ RemoveGoal("s1", "Bob", default_goals[1][2])
    \/ AppRoom(AppMaxIds) /\ SaveFile("s1", "Bob", 1)
    \/ \E i \in 1..AppMaxIds : DeleteFile("s1", "Bob", i)
    \/ AppRoom(AppMaxIds) /\ SaveCheckIn("s1", "Bob")
    \/ AppRoom(AppMaxIds) /\ AddResource("s1", "Bob", "Breathing exercise")
    \/ \E i \in 1..AppMaxIds : DeleteResource("s1", "Bob", i)
    \/ AppRoom(AppMaxIds) /\ AddGoal("s1", CatEmotional, "Custom goal")
    \/ DeleteGoal("s1", "Custom goal")
    \/ Analytics("s1", "All", "")

SpecApp == Init /\ [][NextApp]_vars

\* bound of SpecRace: ids ever allocated
RaceMaxIds == 3

\* the statuses the two sessions set
RaceStatuses == {"Active", "Terminated", "No-Show"}

\* Two browser sessions of one therapist (nothing ties an account to one
\* session), one client, its status set from the profile and from the alert
\* card, statement by statement, and the client deleted.
NextRace ==
    \/ \E s \in Sess : Login(s, "admin", "admin")
    \/ AppRoom(RaceMaxIds) /\ SaveSite("s1", "Clinic A")
    \/ AppRoom(RaceMaxIds) /\ CreateClient("s1", "Bob", "Anxiety", "Clinic A")
    \/ AppRoom(RaceMaxIds) /\ SaveSoapNote("s1", "Bob", <<"Grave Disability">>, <<"Stable.">>)
    \/ \E s \in Sess, st \in RaceStatuses : UpdateStatusRead(s, "Bob", st)
    \/ \E s \in Sess : UpdateStatusWrite(s)
    \/ \E s \in Sess, st \in RaceStatuses :
          \E row \in high_risk_clients(user[s]) : ApplyUpdateRead(s, row, st)
    \/ \E s \in Sess : ApplyUpdateWrite(s)
    \/ \E s \in Sess : DeleteClient(s, "Bob", "Bob")

SpecRace == Init /\ [][NextRace]_vars

\* bound of SpecStatus: ids ever allocated
StatusMaxIds == 4

\* One therapist, clients with or without a flagged note, every option of
\* the two status boxes.
NextStatus ==
    \/ Setup("s1")
    \/ \E n \in ClientNames :
          AppRoom(StatusMaxIds) /\ CreateClient("s1", n, "Anxiety", "Clinic A")
    \/ \E n \in ClientNames :
          AppRoom(StatusMaxIds)
             /\ SaveSoapNote("s1", n, <<"Grave Disability">>, <<"Stable.">>)
    \/ \E n \in ClientNames, st \in StatusOptions : UpdateStatus("s1", n, st)
    \/ \E row \in high_risk_clients(user["s1"]), st \in StatusOptions :
          ApplyUpdate("s1", row, st)

SpecStatus == Init /\ [][NextStatus]_vars

\* bound of SpecSelect: ids ever allocated by clients, sessions and
\* soap_notes, all together
SelMaxRows == 4

\* Two therapists whose clients are all named Bob: the first adds clients,
\* sets their status from the profile and from the alert card, saves
\* sessions and SOAP notes and deletes clients; the second has one client and
\* saves sessions.
NextSelect ==
    \/ TwoTherapists
    \/ IsoRoom(SelMaxRows) /\ CreateClient("s1", "Bob", "Anxiety", "Clinic A")
    \/ /\ IsoRoom(SelMaxRows) /\ ClientsOf(user["s2"]) = {}
       /\ CreateClient("s2", "Bob", "Anxiety", "Clinic A")
    \/ \E st \in StatusPicks : UpdateStatus("s1", "Bob", st)
    \/ \E row \in high_risk_clients(user["s1"]), st \in StatusPicks :
          ApplyUpdate("s1", row, st)
    \/ \E s \in Sess, r \in RatingInputs :
          IsoRoom(SelMaxRows) /\ SaveSession(s, "Bob", <<>>, r)
    \/ IsoRoom(SelMaxRows)
          /\ SaveSoapNote("s1", "Bob", <<"Grave Disability">>, <<"Stable.">>)
    \/ DeleteClient("s1", "Bob", "Bob")

SpecSelect == Init /\ [][NextSelect]_vars

\* bound of SpecAtomic: ids ever allocated
AtomMaxIds == 4

\* Two browser sessions of one therapist: clients named Bob, their sessions
\* and SOAP notes, and the delete of a client statement by statement, which
\* may fail at any statement.  A write of the other session waits for the
\* write lock.
NextAtomic ==
    \/ \E s \in Sess : Login(s, "admin", "admin")
    \/ SitesOf(user["s1"]) = {} /\ SaveSite("s1", "Clinic A")
    \/ /\ AppRoom(AtomMaxIds) /\ \A o \in Sess : ~TxOpen(o)
       /\ CreateClient("s1", "Bob", "Anxiety", "Clinic A")
    \/ \E s \in Sess :
          /\ AppRoom(AtomMaxIds) /\ \A o \in Sess : ~TxOpen(o)
          /\ SaveSession(s, "Bob", <<>>, 8)
    \/ /\ AppRoom(AtomMaxIds) /\ \A o \in Sess : ~TxOpen(o)
       /\ SaveSoapNote("s2", "Bob", <<"No Current Risk">>, <<"Stable.">>)
    \/ \E s \in Sess : DeleteClientRead(s, "Bob", "Bob")
    \/ \E s \in Sess : DeleteClientStmt(s)
    \/ \E s \in Sess : DeleteClientCommit(s)
    \/ \E s \in Sess : DeleteClientFail(s)

SpecAtomic == Init /\ [][NextAtomic]_vars

(***************************************************************************)
(* Claims.                                                                 *)
(***************************************************************************)

\* the rows of a client-scoped table that reference client id c
RowsOf(rows, c) == {r \in rows : r.client_id = c}

\* C1: a step that removes the clients row of a client C removes exactly
\* that row from clients, removes every row of the eight client-scoped
\* tables whose client_id is C, leaves every row of another client where it
\* was and adds none, and leaves sites, goals and users unchanged.
C1_DeleteCascade ==
    [][\A c \in clients :
          c \notin clients' =>
             /\ clients' = clients \ {c}
             /\ sessions' = sessions \ RowsOf(sessions, c.id)
             /\ soap_notes' = soap_notes \ RowsOf(soap_notes, c.id)
             /\ client_goals' = client_goals \ RowsOf(client_goals, c.id)
             /\ diagnostic_history' = diagnostic_history \ RowsOf(diagnostic_history, c.id)
             /\ client_files' = client_files \ RowsOf(client_files, c.id)
             /\ therapist_checkin' = therapist_checkin \ RowsOf(therapist_checkin, c.id)
             /\ session_resources' = session_resources \ RowsOf(session_resources, c.id)
             /\ session_plans' = session_plans \ RowsOf(session_plans, c.id)
             /\ sites' = sites /\ goals' = goals /\ users' = users]_vars

\* C1 witness: client 1 was deleted together with its first SOAP note and its
\* first session, and client 2 still has the note and the file logged for it.
C1_Witness ==
    /\ msg["s1"] = "Client and all associated records deleted."
    /\ {c.id : c \in clients} = {2}
    /\ seq["soap_notes"] = 1 /\ soap_notes = {}
    /\ \E r \in client_files : r.client_id = 2

\* the SOAP notes of client id c
NotesOf(c) == {n \in soap_notes : n.client_id = c}

\* the most recent of them: the latest date, and among equal dates the one
\* inserted last
MostRecentNote(c) ==
    CHOOSE n \in NotesOf(c) :
       \A m \in NotesOf(c) : m.date < n.date \/ (m.date = n.date /\ m.id <= n.id)

\* the text holds one of the four risk keywords
HasRiskKeyword(x) ==
    \E k \in {"Suicidal Ideation", "Homicidal Ideation", "Self-Harm Risk",
               "Grave Disability"} : \E i \in 1..Len(x) : x[i] = k

NoDuplicateClientGoal ==
    \A r, q \in client_goals :
       (r.client_id = q.client_id /\ r.goal_description = q.goal_description) => r = q

\* C3: client_goals never holds two rows with one (client_id,
\* goal_description) pair, and the INSERT of a pair the table holds is
\* rejected: the table stays as it was and the exception is what is shown.
C3_ClientGoalUnique ==
    /\ []NoDuplicateClientGoal
    /\ [][\A s \in Sess :
             (AssignGoalInsert(s)
              /\ \E r \in client_goals : r.client_id = run[s].client_id
                                          /\ r.goal_description = run[s].new_goal)
                => client_goals' = client_goals /\ msg'[s] # "Goal assigned."]_vars

\* C3 witness: a second INSERT of a pair was just rejected in session s2; the
\* pair is there once, and an earlier row of the table has been removed.
C3_Witness ==
    /\ msg["s2"] = "sqlite3.IntegrityError"
    /\ run["s2"] = Idle
    /\ Cardinality(client_goals) = 1
    /\ seq["client_goals"] = 2

\* C7: a press of "Delete Selected Goal" for description D leaves no
\* client_goals row whose goal_description is D, for any client.
C7_DeleteGoalCascades ==
    [][\A d \in GoalsInPlay :
          DeleteGoal("s1", d) => \A r \in client_goals' : r.goal_description # d]_vars

\* the diagnostic-history entries of client id c
HistoryOf(c) == {h \in diagnostic_history : h.client_id = c}

\* the latest of them
LatestDiagnosis(c) ==
    CHOOSE h \in HistoryOf(c) : \A g \in HistoryOf(c) : g.date <= h.date

\* C8: once a diagnosis has been logged for a client, the diagnosis field of
\* the client is the diagnosis of the latest diagnostic-history entry (its
\* description, its code, or the two together).
C8_DiagnosisMirrored ==
    \A c \in clients :
       HistoryOf(c.id) # {} =>
          c.diagnosis \in {LatestDiagnosis(c.id).diagnosis_description,
                           LatestDiagnosis(c.id).diagnosis_code,
                           <<LatestDiagnosis(c.id).diagnosis_code,
                             LatestDiagnosis(c.id).diagnosis_description>>}

\* C9: a file is saved exactly when its size is at most 2 MiB: "Save" of a
\* file of at most 2097152 bytes writes a client_files row that decodes to
\* those bytes, a larger file writes no row and shows the size error; so
\* every stored file decodes to at most 2097152 bytes.
C9_UploadLimit ==
    /\ [](\A r \in client_files : b64decode(r.filedata) <= 2097152)
    /\ [][\A n \in ClientNames, size \in FileSizeInputs :
             SaveFile("s1", n, size) =>
                IF size <= 2097152
                THEN \E r \in client_files' \ client_files :
                        /\ b64decode(r.filedata) = size
                        /\ r.client_id = client_data(user["s1"], n).id
                ELSE /\ client_files' = client_files
                     /\ msg'["s1"] = "File size exceeds 2MB limit."]_vars

\* C9 witness: a file of exactly 2 MiB is stored, and a larger one was just
\* turned away.
C9_Witness ==
    /\ \E r \in client_files : b64decode(r.filedata) = 2097152
    /\ msg["s1"] = "File size exceeds 2MB limit."

\* the pieces of text x between its commas, each as its two ends: a stretch
\* i..j without a comma that a comma or an end of the text bounds on each side
Pieces(x) ==
    {p \in (1..(Len(x) + 1)) \X (0..Len(x)) :
        /\ p[1] <= p[2] + 1
        /\ \A k \in p[1]..p[2] : x[k] # ","
        /\ (p[1] = 1 \/ x[p[1] - 1] = ",")
        /\ (p[2] = Len(x) \/ x[p[2] + 1] = ",")}

\* text tok is piece p of x without the blanks at its two ends
IsTrimOf(tok, x, p) ==
    \E a \in p[1]..(p[2] + 1), b \in (p[1] - 1)..p[2] :
       /\ tok = SubSeq(x, a, b)
       /\ \A k \in p[1]..(a - 1) : x[k] = " "
       /\ \A k \in (b + 1)..p[2] : x[k] = " "
       /\ (a <= b => (x[a] # " " /\ x[b] # " "))

\* the occurrences of token tok in the frame: (row, piece) pairs
Occurrences(tok, column) ==
    UNION {{<<r, p>> : p \in {q \in Pieces(column[r]) : IsTrimOf(tok, column[r], q)}} :
              r \in 1..Len(column)}

\* the non-empty trimmed tokens of the frame
TokensOf(column) ==
    {tok \in UNION {{SubSeq(column[r], a, b) : a \in 1..Len(column[r]),
                                                 b \in 1..Len(column[r])} :
                       r \in 1..Len(column)} :
        Len(tok) > 0 /\ Occurrences(tok, column) # {}}

\* C10: the goal-frequency frame has exactly one entry per distinct non-empty
\* trimmed token of the comma-split goals_selected texts of the filtered
\* sessions, and the count of each entry is the number of occurrences of its
\* token across those sessions.
C10_GoalFrequency ==
    goal_counts # NoFrame =>
       /\ {goal_counts[i].Goal : i \in 1..Len(goal_counts)} = TokensOf(df_goals)
       /\ Len(goal_counts) = Cardinality(TokensOf(df_goals))
       /\ \A i \in 1..Len(goal_counts) :
             goal_counts[i].count
                = Cardinality(Occurrences(goal_counts[i].Goal, df_goals))

\* C10 witness: the frame "A, B", "B, C", "B" was counted: B 3, A 1, C 1 and
\* three names.
C10_Witness ==
    /\ df_goals = <<<<"A", ",", " ", "B">>, <<"B", ",", " ", "C">>, <<"B">>>>
    /\ goal_counts # NoFrame
    /\ Len(goal_counts) = 3
    /\ goal_counts[1] = [Goal |-> <<"B">>, count |-> 3]
    /\ {goal_counts[2], goal_counts[3]}
          = {[Goal |-> <<"A">>, count |-> 1], [Goal |-> <<"C">>, count |-> 1]}

SessionsFor(u, f) ==
    {x \in sessions : \E c \in clients : /\ c.id = x.client_id
                                         /\ c.therapist_id = u
                                         /\ (f = "All" \/ c.name = f)}

\* the name of the client of session row x
ClientNameOf(x) == (CHOOSE c \in clients : c.id = x.client_id).name

\* C11: a run of Analytics with client filter f and no goal keyword shows one
\* row per session of the current therapist's clients named f (of all the
\* therapist's clients for "All"), each with the client's name and the rating
\* entered, and no other row.
C11_AnalyticsFilter ==
    [][\A s \in Sess, f \in {"All"} \cup ClientNames :
          (sessions' = sessions /\ clients' = clients /\ Analytics(s, f, "")) =>
             /\ Len(df') = Cardinality(SessionsFor(user[s], f))
             /\ \A v \in {df'[i] : i \in 1..Len(df')}
                       \cup {[name |-> ClientNameOf(x), rating |-> x.rating,
                              goals_selected |-> x.goals_selected] :
                                x \in SessionsFor(user[s], f)} :
                   Cardinality({i \in 1..Len(df') : df'[i] = v})
                     = Cardinality({x \in SessionsFor(user[s], f) :
                                       /\ ClientNameOf(x) = v.name
                                       /\ x.rating = v.rating
                                       /\ x.goals_selected = v.goals_selected})]_vars

\* C11 witness: the frame filtered by "Bob" is one row with rating 8, while
\* the other therapist has a session of a client named Bob too.
C11_Witness ==
    /\ df = <<[name |-> "Bob", rating |-> 8, goals_selected |-> <<>>]>>
    /\ \E x \in sessions : x.therapist_id = "alice" /\ ClientNameOf(x) = "Bob"

C13_SeedOnce ==
    [][/\ ~(\A i \in 1..Len(default_goals) :
               \E g \in goals' \ goals : g.description = default_goals[i][2])
       /\ \A u \in users' \ users : u.username # "admin"]_vars

\* the validation errors of the create forms
ValidationErrors ==
    {"Username and Password cannot be empty.", "Site Name cannot be empty.",
     "Client Name is required.", "Code and Description are required.",
     "Resource Title is required."}

\* the step leaves every table as it was and shows a validation error
Rejected(s) ==
    /\ UNCHANGED <<users, goals, sites, clients, recordVars>>
    /\ msg'[s] \in ValidationErrors

\* C14: each create form (sign-up, site, client, diagnostic-history entry,
\* resource, goal template) submitted with a blank required field is
\* rejected: a validation error is shown and no table changes.
C14_BlankRejected ==
    [][/\ \A u \in {"", "alice"}, p \in {"", "pw1"} :
             ((u = "" \/ p = "") /\ CreateAccount("s1", u, p)) => Rejected("s1")
       /\ SaveSite("s1", "") => Rejected("s1")
       /\ \A sn \in SiteNameInputs : CreateClient("s1", "", "Anxiety", sn) => Rejected("s1")
       /\ \A n \in ClientNames, code \in DiagCodeInputs, desc \in DiagDescInputs :
             ((code = "" \/ desc = "") /\ LogDiagnosis("s1", n, code, desc))
                => Rejected("s1")
       /\ \A n \in ClientNames : AddResource("s1", n, "") => Rejected("s1")
       /\ AddGoal("s1", CatEmotional, "") => Rejected("s1")]_vars

\* the sites, the clients and the client-scoped rows that belong to therapist u
Owned(u) ==
    LET ids == {c.id : c \in ClientsOf(u)}
        of(rows) == {r \in rows : r.client_id \in ids}
    IN  <<SitesOf(u), ClientsOf(u), of(sessions), of(soap_notes), of(client_goals),
          of(diagnostic_history), of(client_files), of(therapist_checkin),
          of(session_resources), of(session_plans)>>

\* C15: with therapist admin in session s1 and therapist alice in s2, no
\* step of s1 changes a site, a client or a client-scoped row of alice, and
\* no frame a page of s1 reads holds a row of a client of alice.
C15_Isolation ==
    [][/\ (user["s1"] = "admin" /\ FirstTherapist) => Owned("alice")' = Owned("alice")
       /\ \A f \in {"All"} \cup ClientNames :
             (user["s1"] = "admin" /\ Analytics("s1", f, "")) =>
                \A n \in soap_df' : \E c \in ClientsOf("admin") : c.id = n.client_id]_vars

\* A reader of delimited text (RFC 4180, as csv.reader reads): the state
\* after character i of x.  mode is "start" at the start of a field,
\* "plain" inside an unquoted one, "quoted" inside a quoted one and "quote"
\* after a quote character met inside a quoted one.
RECURSIVE CsvRead(_, _, _)
CsvRead(x, i, st) ==
    IF i > Len(x)
    THEN IF st.mode = "start" /\ st.row = <<>> THEN st.rows
         ELSE Append(st.rows, Append(st.row, st.field))
    ELSE LET c == x[i]
             endField == [st EXCEPT !.mode = "start", !.field = <<>>,
                                    !.row = Append(st.row, st.field)]
             endRow == [st EXCEPT !.mode = "start", !.field = <<>>, !.row = <<>>,
                                  !.rows = Append(st.rows, Append(st.row, st.field))]
             take == [st EXCEPT !.field = Append(st.field, c)]
         IN  CASE st.mode = "quoted" /\ c = "\"" -> CsvRead(x, i + 1, [st EXCEPT !.mode = "quote"])
               [] st.mode = "quoted" /\ c # "\"" -> CsvRead(x, i + 1, take)
               [] st.mode = "quote" /\ c = "\"" ->
                     CsvRead(x, i + 1, [take EXCEPT !.mode = "quoted"])
               [] st.mode = "start" /\ c = "\"" ->
                     CsvRead(x, i + 1, [st EXCEPT !.mode = "quoted"])
               [] st.mode # "quoted" /\ c = "," -> CsvRead(x, i + 1, endField)
               [] st.mode # "quoted" /\ c = "\n" -> CsvRead(x, i + 1, endRow)
               [] OTHER -> CsvRead(x, i + 1, [take EXCEPT !.mode = "plain"])

\* the records of delimited text x, each the sequence of its fields
CsvRecords(x) ==
    CsvRead(x, 1, [mode |-> "start", field |-> <<>>, row |-> <<>>, rows |-> <<>>])

\* the number a text of decimal digits writes
RECURSIVE ParseInt(_)
ParseInt(x) ==
    LET value(d) == CHOOSE v \in 0..9 : <<"0", "1", "2", "3", "4", "5", "6", "7", "8", "9">>[v + 1] = d
    IN  IF Len(x) = 1 THEN value(x[1])
        ELSE 10 * ParseInt(SubSeq(x, 1, Len(x) - 1)) + value(x[Len(x)])

\* C16: the exported text, read back, is a header record with the seven
\* column names and one record per row of the frame, in order, and each field
\* is the value of its cell: the same text for name, date, session_time,
\* goals_selected and progress_notes, the same number for session_number and
\* rating; commas, quotes and line breaks inside a value included.
C16_CsvRoundTrip ==
    csv # NoCsv =>
       LET records == CsvRecords(csv)
       IN  /\ Len(records) = Len(df) + 1
           /\ records[1] = [k \in 1..7 |-> <<df_columns[k]>>]
           /\ \A i \in 1..Len(df) :
                 /\ Len(records[i + 1]) = 7
                 /\ \A k \in 1..7 :
                       IF df_columns[k] \in IntColumns
                       THEN ParseInt(records[i + 1][k]) = df[i][df_columns[k]]
                       ELSE IF df_columns[k] = "name"
                       THEN records[i + 1][k] = Spell(df[i].name)
                       ELSE records[i + 1][k] = SpellText(df[i][df_columns[k]])

\* C16 witness: a frame of two rows was exported whose values hold a comma, a
\* quote and a line break.
C16_Witness ==
    /\ csv # NoCsv
    /\ Len(df) = 2
    /\ df[1].name = "Smith, Ann"
    /\ df[2].progress_notes = <<"said ", "\"", "no", ",", " thanks", "\"", "\n">>

\* the dashboard of session s1 shows an alert card for client id c
Flagged(c) == \E r \in high_risk_clients(user["s1"]) : r.id = c

\* C17: "Apply Update" on an alert card changes the status of that one
\* client and nothing else, no SOAP note in particular, and the card of the
\* client is still there afterwards; and a client's card goes away only in a
\* step that deletes the client or records for it a note without a risk
\* keyword that is newer than all its notes.
C17_FlagsDerived ==
    [][/\ \A row \in high_risk_clients(user["s1"]), st \in StatusPicks :
             ApplyUpdate("s1", row, st) =>
                /\ soap_notes' = soap_notes
                /\ \A c \in clients :
                      IF c.id = row.id THEN [c EXCEPT !.status = st] \in clients'
                                       ELSE c \in clients'
                /\ Cardinality(clients') = Cardinality(clients)
                /\ Flagged(row.id)'
       /\ \A c \in clients :
             (Flagged(c.id) /\ ~Flagged(c.id)') =>
                \/ \A d \in clients' : d.id # c.id
                \/ \E n \in soap_notes' \ soap_notes :
                      /\ n.client_id = c.id
                      /\ ~HasRiskKeyword(n.assessment)
                      /\ \A m \in NotesOf(c.id) : m.date < n.date]_vars

\* C17 witness: the status of a flagged client was just set to Terminated on
\* its card, the card is still shown, and another client is Active.
C17_Witness ==
    /\ msg["s1"] = "Status updated"
    /\ \E c, d \in clients :
          /\ c.status = "Terminated" /\ Flagged(c.id)
          /\ d.id # c.id /\ d.status = "Active"

\* C18: table users changes only in a "Create Account" that reports success,
\* which adds exactly the row typed; no step removes or rewrites a row, so
\* every stored (username, password) pair still selects a row afterwards.
C18_UsersAppendOnly ==
    [][/\ users' # users =>
             \E c \in TherapistLogins :
                /\ CreateAccount("s1", c[1], c[2])
                /\ msg'["s1"] = "Account created! Please log in."
                /\ users' = users \cup {[username |-> c[1], password |-> c[2]]}
       /\ users \subseteq users'
       /\ \A r \in users : SelectUser(users', r.username, r.password) # {}]_vars

C18_Witness ==
    /\ users = {[username |-> "admin", password |-> "admin"],
                [username |-> "alice", password |-> "pw1"]}
    /\ logged_in["s1"] /\ user["s1"] = "alice"
    /\ \E c \in clients : c.therapist_id = "alice" /\ c.status = "Terminated"
    /\ soap_notes # {}

\* the statement of a run in flight of session s executes in this step
StatusWrite(s) == UpdateStatusWrite(s) \/ ApplyUpdateWrite(s)

\* the client a run in flight of session s read is no longer in the store
TargetGone(s) ==
    /\ run[s].handler \in {"UpdateStatus", "ApplyUpdate"}
    /\ \A r \in clients : r.id # run[s].client_id

\* C19: a status update whose client was deleted after the screen read it
\* changes no row and does not report success.
C19_NotFound ==
    [][\A s \in Sess :
          (TargetGone(s) /\ StatusWrite(s)) =>
             /\ clients' = clients
             /\ msg'[s] # "Status updated"]_vars

\* session s has a status update in flight whose client exists and whose
\* status is no longer the one the run read
StaleRead(s) ==
    /\ run[s].handler \in {"UpdateStatus", "ApplyUpdate"}
    /\ \E c \in clients : c.id = run[s].client_id /\ c.status # run[s].status

\* C20: nothing guards a status update against the update of another
\* session: a run in flight can always execute its UPDATE, and when the
\* status was changed by another session since the run read it, the UPDATE
\* still overwrites it and the run still reports success.
C20_LostUpdate ==
    /\ [](\A s \in Sess :
             run[s].handler \in {"UpdateStatus", "ApplyUpdate"} => ENABLED StatusWrite(s))
    /\ [][\A s \in Sess :
             (StaleRead(s) /\ StatusWrite(s)) =>
                /\ msg'[s] = "Status updated"
                /\ \A c \in clients :
                      c.id = run[s].client_id =>
                         [c EXCEPT !.status = run[s].new_status] \in clients'
                /\ Cardinality(clients') = Cardinality(clients)]_vars

\* session s1 has set the status it read as Active to Terminated and reported
\* success, while the run of s2 that read Active too is about to set No-Show
C20_Witness ==
    /\ msg["s1"] = "Status updated"
    /\ run["s1"] = Idle
    /\ StaleRead("s2")
    /\ run["s2"].status = "Active" /\ run["s2"].new_status = "No-Show"
    /\ \E c \in clients : c.id = run["s2"].client_id /\ c.status = "Terminated"

\* C21 as stated: the goal-frequency frame is ordered ascending by count:
\* of two consecutive entries the earlier has a count less than or equal to
\* the count of the later.
C21_AscendingAsStated ==
    goal_counts # NoFrame =>
       \A i \in 1..(Len(goal_counts) - 1) :
          goal_counts[i].count <= goal_counts[i + 1].count

\* C21 amended: the frame is ordered descending by count: of two consecutive
\* entries the earlier has a count greater than or equal to the count of the
\* later.
C21_GoalCountsDescending ==
    goal_counts # NoFrame =>
       \A i \in 1..(Len(goal_counts) - 1) :
          goal_counts[i].count >= goal_counts[i + 1].count

\* a frame of two goals or more whose first entry has the count 2 and whose
\* last has the count 1
C21_Witness ==
    /\ goal_counts # NoFrame
    /\ Len(goal_counts) >= 2
    /\ goal_counts[1].count = 2
    /\ goal_counts[Len(goal_counts)].count = 1

\* the rows of the eight client-scoped tables whose client_id is the id of
\* no clients row
Orphans ==
    {r \in sessions \cup soap_notes \cup client_goals \cup diagnostic_history
           \cup client_files \cup therapist_checkin \cup session_resources
           \cup session_plans :
        \A c \in clients : c.id # r.client_id}

\* C22: used through one session, the store never holds a client-scoped row
\* whose client_id names no clients row, and the id of a new clients row is
\* larger than every id table clients ever gave out (sqlite_sequence, which
\* never decreases and bounds every id in the table).
C22_ReferentialIntegrity ==
    /\ [](Orphans = {})
    /\ [](\A c \in clients : c.id <= seq["clients"])
    /\ [][/\ seq'["clients"] >= seq["clients"]
          /\ \A c \in clients' :
                (\A d \in clients : d.id # c.id) => c.id > seq["clients"]]_vars

\* the first client was deleted and the client created after it has id 2
C22_Witness ==
    /\ msg["s1"] = "Client Added"
    /\ {c.id : c \in clients} = {2}
    /\ seq["clients"] = 2

\* C23: every client's site_id is not NULL and is the id of a sites row of
\* the client's own therapist, in every state that creating and deleting
\* sites, creating clients and changing their site can reach; and "Create
\* Client" pressed by a therapist without a site adds no client.
C23_ClientSite ==
    /\ [](\A c \in clients :
             /\ c.site_id # NullSite
             /\ \E site \in sites :
                   site.id = c.site_id /\ site.therapist_id = c.therapist_id)
    /\ [][\A n \in ClientNameInputs, d \in DiagnosisInputs, sn \in SiteNameInputs :
             (SitesOf(user["s1"]) = {} /\ CreateClient("s1", n, d, sn))
                => clients' = clients /\ msg'["s1"] # "Client Added"]_vars

\* the client was moved from the first site to the second and the first site
\* was then deleted
C23_Witness ==
    /\ msg["s1"] = "Site deleted."
    /\ {r.id : r \in sites} = {2}
    /\ \E c \in clients : c.site_id = 2 /\ c.therapist_id = user["s1"]

\* C24: every stored status is one of 'Active', 'Terminated', 'No-Show' and
\* 'Inactive', the list in which both status boxes look up the status of the
\* client they show.
C24_StatusValues ==
    \A c \in clients : c.status \in {"Active", "Terminated", "No-Show", "Inactive"}

\* the alert card has just set a client to Inactive and the profile tab had
\* set another to No-Show
C24_Witness ==
    /\ msg["s1"] = "Status updated"
    /\ \E c, d \in clients :
          /\ c.status = "Inactive" /\ Flagged(c.id)
          /\ d.status = "No-Show" /\ ~Flagged(d.id)

\* C25: the session starts logged out; a step that changes a table other
\* than users, a frame of the Analytics page or a run in flight is taken
\* only while logged_in holds; logged_in becomes true only in a "Login"
\* whose username and password equal a users row, which becomes the user; a
\* sign-up that adds a row leaves the session logged out on the login form;
\* "Logout" leaves logged_in false; and while logged_in holds, user is the
\* username of a users row.
C25_SessionStateMachine ==
    /\ ~logged_in["s1"] /\ ~signup_mode["s1"]
    /\ [](logged_in["s1"] => \E r \in users : r.username = user["s1"])
    /\ [][/\ <<goals, sites, clients, recordVars, seq, clock, run, aggVars>>'
                # <<goals, sites, clients, recordVars, seq, clock, run, aggVars>>
                   => logged_in["s1"]
          /\ (~logged_in["s1"] /\ logged_in'["s1"]) =>
                \E r \in users :
                   /\ Login("s1", r.username, r.password)
                   /\ user'["s1"] = r.username
          /\ users' # users =>
                ~logged_in'["s1"] /\ ~signup_mode'["s1"] /\ user'["s1"] = user["s1"]
          /\ Logout("s1") => ~logged_in'["s1"]]_vars

\* the second therapist has logged out after work on a client of theirs
C25_Witness ==
    /\ ~logged_in["s1"] /\ ~signup_mode["s1"]
    /\ user["s1"] = "alice"
    /\ msg["s1"] = NoMsg
    /\ \E c \in clients : c.therapist_id = "alice"

\* C26: a session row is added only by "Save Session" of a logged-in
\* session, for a client of that session's therapist whose status is Active
\* when the page is run (so none is added for a client that is Terminated,
\* No-Show or Inactive), with that therapist as therapist_id and a rating
\* from 1 to 10.
C26_ActiveOnly ==
    [][\A x \in sessions' \ sessions :
          \E s \in Sess :
             /\ logged_in[s]
             /\ SaveSession(s, "Bob", <<>>, x.rating)
             /\ x.therapist_id = user[s]
             /\ x.rating \in 1..10
             /\ \E c \in clients :
                   /\ c.id = x.client_id
                   /\ c.status = "Active"
                   /\ c.therapist_id = user[s]]_vars

\* of two clients of one name the first is Terminated, and the session just
\* saved under that name is a session of the second, which is Active
C26_Witness ==
    /\ msg["s1"] = "Session Saved Successfully!"
    /\ \E c, d \in ClientsOf(user["s1"]) :
          /\ c.name = d.name /\ c.id < d.id
          /\ c.status = "Terminated" /\ d.status = "Active"
          /\ \E x \in sessions : x.client_id = d.id
          /\ \A x \in sessions : x.client_id # c.id

\* C27: with client c of the therapist picked in the client box (the box
\* hands the script the name of c), "Update Status" sets the status of c and
\* leaves every other client as it was, "Save SOAP Note" adds a note of c,
\* "PERMANENTLY DELETE" removes c and no other client, and "Save Session"
\* with an Active c picked adds a session of c.
C27_SelectedClient ==
    [][\A c \in ClientsOf(user["s1"]) :
          /\ \A st \in StatusPicks :
                UpdateStatus("s1", c.name, st) =>
                   /\ [c EXCEPT !.status = st] \in clients'
                   /\ \A d \in clients : d.id # c.id => d \in clients'
          /\ SaveSoapNote("s1", c.name, <<"Grave Disability">>, <<"Stable.">>) =>
                \A n \in soap_notes' \ soap_notes : n.client_id = c.id
          /\ DeleteClient("s1", c.name, c.name) => clients' = clients \ {c}
          /\ \A r \in RatingInputs :
                (c.status = "Active" /\ SaveSession("s1", c.name, <<>>, r)) =>
                   \A x \in sessions' \ sessions : x.client_id = c.id]_vars

\* the rows of the eight client-scoped tables that reference client id c
Referencing(c) ==
    RowsOf(sessions, c) \cup RowsOf(soap_notes, c) \cup RowsOf(client_goals, c)
    \cup RowsOf(diagnostic_history, c) \cup RowsOf(client_files, c)
    \cup RowsOf(therapist_checkin, c) \cup RowsOf(session_resources, c)
    \cup RowsOf(session_plans, c)

\* C28: in the tables as the other sessions read them, the step that
\* removes the clients row of C leaves no row that references C, no step
\* removes a row that references C and keeps the clients row of C, and a
\* delete that fails at any of its statements leaves every table as it was.
C28_DeleteAtomic ==
    [][/\ \A c \in clients :
             /\ c \notin clients' => Referencing(c.id)' = {}
             /\ c \in clients' => Referencing(c.id) \subseteq Referencing(c.id)'
       /\ \A s \in Sess : DeleteClientFail(s) => dbVars' = dbVars]_vars

\* a delete of session s1 failed after statements of it had been executed
\* while session s2 was at work, and the client still has its session and its
\* SOAP note
C28_Witness ==
    /\ msg["s1"] = "sqlite3.OperationalError"
    /\ run["s1"] = Idle
    /\ msg["s2"] = "SOAP Note Saved Successfully!"
    /\ \E c \in clients :
          /\ RowsOf(sessions, c.id) # {}
          /\ RowsOf(soap_notes, c.id) # {}

\* C4: a press of "Delete Site" on a site to which some client is assigned
\* (clients.site_id = sites.id, whatever the status and whoever the therapist)
\* is refused and leaves table sites as it was; and no step removes a sites
\* row to which a client is assigned.
C4_DeleteSiteRefused ==
    [][/\ \A i \in 1..SitesMaxSites :
             (DeleteSite("s1", i) /\ \E c \in clients : c.site_id = i)
                => /\ sites' = sites
                   /\ msg'["s1"] = "Cannot delete site: first unassign all clients."
       /\ \A r \in sites :
             r \notin sites' => ~\E c \in clients : c.site_id = r.id]_vars

\* C4 witness: a refusal was just shown while a client is assigned to a site
\* of the logged-in therapist and another of the therapist's sites is gone.
C4_Witness ==
    /\ msg["s1"] = "Cannot delete site: first unassign all clients."
    /\ \E r \in SitesOf(user["s1"]) : \E c \in clients :
          c.site_id = r.id /\ c.status = "Terminated"
    /\ Cardinality(sites) < seq["sites"]

\* C5: a press of "Login" with (username, password) leaves the session
\* logged in as username exactly when table users holds a row equal to the
\* pair in both fields, case included; otherwise logged_in and user keep
\* their values and the error message is shown.
C5_LoginExactMatch ==
    [][\A u \in UsernameInputs, p \in PasswordInputs :
          Login("s1", u, p) =>
             IF \E r \in users : r.username = u /\ r.password = p
             THEN logged_in'["s1"] /\ user'["s1"] = u
             ELSE /\ logged_in'["s1"] = logged_in["s1"]
                  /\ user'["s1"] = user["s1"]
                  /\ ~logged_in'["s1"]
                  /\ msg'["s1"] = "Invalid Username or Password"]_vars

\* C5 witness: logged in as "alice" while an account "Alice" with another
\* password exists, so a look-alike pair was there to be confused with.
C5_Witness ==
    /\ logged_in["s1"] /\ user["s1"] = "alice"
    /\ [username |-> "alice", password |-> "pw1"] \in users
    /\ [username |-> "Alice", password |-> "admin"] \in users

\* C6 as stated: "Create Account" with a username that table users holds
\* shows the duplicate-user error, leaves users as it was, and leaves the
\* session on the sign-up screen, not logged in.
C6_DuplicateUserAsStated ==
    [][\A u \in UsernameInputs, p \in PasswordInputs :
          (CreateAccount("s1", u, p) /\ \E r \in users : r.username = u)
             => /\ users' = users
                /\ msg'["s1"] = "Username already taken."
                /\ signup_mode'["s1"] /\ ~logged_in'["s1"]]_vars

\* C6 amended: the same, for a non-blank password; with a blank password the
\* blank-field error is the one shown, and the rest holds all the same.
C6_DuplicateUser ==
    [][\A u \in UsernameInputs, p \in PasswordInputs :
          (CreateAccount("s1", u, p) /\ \E r \in users : r.username = u)
             => /\ users' = users
                /\ msg'["s1"] = IF p = "" THEN "Username and Password cannot be empty."
                                 ELSE "Username already taken."
                /\ signup_mode'["s1"] /\ ~logged_in'["s1"]]_vars

\* C6 witness: the duplicate-user error is on the sign-up screen and the
\* account that was there first still has its password.
C6_Witness ==
    /\ msg["s1"] = "Username already taken."
    /\ signup_mode["s1"] /\ ~logged_in["s1"]
    /\ [username |-> "alice", password |-> "pw1"] \in users
    /\ Cardinality({r \in users : r.username = "alice"}) = 1

====
